---- MODULE Spec2Model ----
\* Caption editor (components/VideoEditor.tsx, components/Timeline.tsx):
\* the undo/redo history, the timeline interaction handlers and the
\* frame-stepping export loop.
\*
\* React state lives in the variables below.  Event handlers are closures
\* created by a render: they read the values the last render captured
\* (variable `view`) and write through the state setters.  A re-render
\* (action Render) may or may not happen between two events.
\*
\* Times are whole ticks of 1/60 s, indices are 0-based as in the source.
EXTENDS Integers, Sequences, FiniteSets, TLC

\* ---------------------------------------------------------------- units
frameRate == 30
TicksPerSecond == 2 * frameRate
\* const frameDuration = 1 / 30
frameDuration == TicksPerSecond \div frameRate
\* the 0.1 s minimum caption length
MIN_DURATION == TicksPerSecond \div 10
\* a caption added at the playhead lasts time + 2
NEW_CAPTION_LENGTH == 2 * TicksPerSecond

\* --------------------------------------------------------------- bounds
MaxHist == 3
MaxBurst == 2
HistDuration == 36
DragDuration == 36
MaxEdits == 1
MaxListEdits == 2
MaxUserSeeks == 1
EditDuration == 48
MaxStale == 2
MaxWheels == 2
MaxNudges == 2

\* -------------------------------------------------------------- helpers
Min(a, b) == IF a < b THEN a ELSE b
Max(a, b) == IF a > b THEN a ELSE b
Abs(a) == IF a < 0 THEN 0 - a ELSE a

\* JS array read a[i] is undefined outside 0..length-1
Has(a, i) == i >= 0 /\ i < Len(a)

At(a, i) == a[i + 1]

\* JS a.slice(0, n) for n >= 0
Slice0(a, n) == SubSeq(a, 1, Min(n, Len(a)))

\* zoom levels are whole multiples of 0.1: zoomLevel = ZoomUnit is zoom 1
ZoomUnit == 10
PIXELS_PER_SECOND_BASE == 150
SNAP_THRESHOLD_PX == 6

NullIndex == 0 - 1
NoDrag == [index |-> NullIndex, mode |-> "null", originalStart |-> 0, originalEnd |-> 0]

DEFAULT_STYLES == [fontSize |-> 5, effect |-> "shadow"]

FontSizes == {5, 6}
Effects == {"shadow", "none"}

\* pointer displacements of a drag and playhead positions, in ticks
DragDeltas == {0 - 7, 20}
PlayheadTimes == {0, 12, 40}

\* times typed into a caption's time input, in ticks
TimeInputs == {0, 15, 40}

VARIABLES
    history,               \* useState<EditorState[]>
    historyIndex,          \* useState(0)
    sortedCaptions,        \* useMemo: initial captions sorted by start
    selectedCaptionIndex,  \* useState<number | null>
    dragState,             \* Timeline: useState<DragState | null>
    isNudgingRef,          \* useRef(false)
    videoDuration,         \* useState(0), set from loadedmetadata
    currentTime,           \* useState(0), set from timeupdate
    zoomLevel,             \* useState(1), in steps of 0.1
    view,                  \* what the handlers captured at the last render
    last,                  \* the handler that ran last, with its arguments
    burst,                 \* current run of merged commits
    ur,                    \* undo / re-render / redo sequence in progress
    gest,                  \* clip drag gesture in progress
    video,                 \* the <video> element behind videoRef
    exp,                   \* the export run: flags, frame loop, recorder
    scroller               \* Timeline: the element behind scrollContainerRef

vars == <<history, historyIndex, sortedCaptions, selectedCaptionIndex,
          dragState, isNudgingRef, videoDuration, scroller, currentTime, zoomLevel,
          view, last, burst, ur, gest, video, exp>>

\* the state no history operation touches
uiVars == <<sortedCaptions, selectedCaptionIndex, dragState, isNudgingRef,
            videoDuration, scroller, currentTime, zoomLevel, video, exp>>

\* ------------------------------------------------------ render closure
\* const currentState = history[historyIndex];
\* const { captions, styles } = currentState || { sortedCaptions, DEFAULT_STYLES }
RenderOf(h, hi, sc, sel, ds, vd, ct, zoom) ==
    [ historyIndex |-> hi,
      canUndo      |-> hi > 0,
      canRedo      |-> hi < Len(h) - 1,
      captions     |-> IF Has(h, hi) THEN At(h, hi).captions ELSE sc,
      styles       |-> IF Has(h, hi) THEN At(h, hi).styles ELSE DEFAULT_STYLES,
      selectedCaptionIndex |-> sel,
      dragState    |-> ds,
      videoDuration |-> vd,
      currentTime  |-> ct,
      zoomLevel    |-> zoom ]

CurrentView == RenderOf(history, historyIndex, sortedCaptions,
                        selectedCaptionIndex, dragState, videoDuration,
                        currentTime, zoomLevel)

Fresh == view = CurrentView

\* ------------------------------------------------------------- history
\* prevHistory.slice(0, newHistoryIndex) followed by [...historySlice, newState]
NewHistory_KeepsOneMore(prevHistory, newHistoryIndex, newState) ==
    Slice0(prevHistory, newHistoryIndex + 1) \o <<newState>>

NewHistory(prevHistory, newHistoryIndex, newState) ==
    Slice0(prevHistory, newHistoryIndex) \o <<newState>>

\* const stateToUpdate = prevHistory[historyIndex], the argument of the
\* updater; the updater is not called when it is undefined
stateToUpdate ==
    IF Has(history, view.historyIndex) THEN At(history, view.historyIndex)
    ELSE [captions |-> <<>>, styles |-> DEFAULT_STYLES]

\* the functional update passed to setHistory, for the captured index k;
\* newState is updater(stateToUpdate)
SetHistoryResult(prevHistory, k, newState, mergeWithLast) ==
    IF ~Has(prevHistory, k) THEN prevHistory
    ELSE NewHistory(prevHistory,
                    IF mergeWithLast THEN k ELSE k + 1,
                    newState)

NextHistoryIndex_Always(prevIndex, mergeWithLast) == prevIndex + 1

\* setHistoryIndex(prevIndex => prevIndex + 1) unless merging
NextHistoryIndex(prevIndex, mergeWithLast) ==
    IF mergeWithLast THEN prevIndex ELSE prevIndex + 1

\* the model stops growing the history at MaxHist entries
CommitBound(mergeWithLast) ==
    mergeWithLast \/ ( /\ view.historyIndex + 2 <= MaxHist
                       /\ historyIndex + 1 <= MaxHist )

\* a history record that is not kept in a specification stays "off"
Kept(g, v) == IF g.phase = "off" THEN g ELSE v
Off(g) == [g EXCEPT !.phase = "off"]

NoBurst == [phase |-> "none", k |-> 0, len0 |-> 0, n |-> 0, fresh |-> FALSE]

BurstAfter(mergeWithLast) ==
    LET k == view.historyIndex
        cont == burst.phase = "merging" /\ burst.k = k IN
    IF ~Has(history, k) THEN NoBurst
    ELSE IF mergeWithLast
         THEN IF cont THEN [burst EXCEPT !.n = Min(burst.n + 1, MaxBurst),
                                         !.fresh = burst.fresh /\ Fresh]
              ELSE [phase |-> "merging", k |-> k, len0 |-> Len(history),
                    n |-> 1, fresh |-> Fresh]
         ELSE IF cont THEN [burst EXCEPT !.phase = "done",
                                         !.fresh = burst.fresh /\ Fresh]
              ELSE [phase |-> "done", k |-> k, len0 |-> Len(history),
                    n |-> 0, fresh |-> Fresh]

\* the handlers that edit caption times or the caption list; a behaviour runs
\* at most MaxEdits of them
EditOps == {"mousemove", "nudge", "timeinput", "add", "split", "merge", "delete",
            "wheel"}
EditBound == last.edits < MaxEdits
ListEditBound == last.edits < MaxListEdits

\* at most MaxStale handlers run between two renders
StaleBound == last.since < MaxStale

\* a behaviour has at most MaxWheels wheel zooms
WheelBound == last.edits < MaxWheels

NoGesture == [phase |-> "none", base |-> <<>>, fresh |-> FALSE]

Op(name, merge) ==
    [op |-> name, merge |-> merge,
     edits |-> IF name \in EditOps THEN last.edits + 1 ELSE last.edits,
     since |-> IF name = "render" THEN 0 ELSE last.since + 1]

NoUR == [phase |-> "none", k |-> 0, cursor0 |-> 0, hist0 |-> <<>>, fresh |-> FALSE]

updateState(newState, mergeWithLast) ==
    /\ CommitBound(mergeWithLast)
    /\ history' = SetHistoryResult(history, view.historyIndex, newState, mergeWithLast)
    /\ historyIndex' = NextHistoryIndex(historyIndex, mergeWithLast)
    /\ burst' = Kept(burst, BurstAfter(mergeWithLast))
    /\ ur' = Kept(ur, NoUR)

UndoTarget_NoStep(v, cur) == IF v.canUndo THEN v.historyIndex ELSE cur

\* const undo = () => canUndo && setHistoryIndex(historyIndex - 1)
UndoTarget(v, cur) == IF v.canUndo THEN v.historyIndex - 1 ELSE cur

\* const redo = () => canRedo && setHistoryIndex(historyIndex + 1)
RedoTarget(v, cur) == IF v.canRedo THEN v.historyIndex + 1 ELSE cur

undo ==
    /\ historyIndex' = UndoTarget(view, historyIndex)
    /\ StaleBound
    /\ last' = Op("undo", FALSE)
    /\ ur' = Kept(ur, [phase |-> "undone", k |-> view.historyIndex,
              cursor0 |-> historyIndex, hist0 |-> history, fresh |-> Fresh])
    /\ burst' = Kept(burst, NoBurst)
    /\ gest' = Kept(gest, IF gest.phase = "up"
               THEN [gest EXCEPT !.phase = "undone", !.fresh = gest.fresh /\ Fresh]
               ELSE NoGesture)
    /\ UNCHANGED <<history, uiVars, view>>

redo ==
    /\ historyIndex' = RedoTarget(view, historyIndex)
    /\ StaleBound
    /\ last' = Op("redo", FALSE)
    /\ ur' = Kept(ur, IF ur.phase = "rendered"
             THEN [ur EXCEPT !.phase = "redone", !.fresh = ur.fresh /\ Fresh]
             ELSE NoUR)
    /\ burst' = Kept(burst, NoBurst)
    /\ gest' = Kept(gest, NoGesture)
    /\ UNCHANGED <<history, uiVars, view>>

\* ------------------------------------------------------ timeline scroll
\* scroller.offsetWidth, in px
ViewportWidth == 200

\* totalWidth = duration * PIXELS_PER_SECOND_BASE * zoomLevel, in whole px
TotalWidth(duration, zoom) ==
    (duration * PIXELS_PER_SECOND_BASE * zoom) \div (TicksPerSecond * ZoomUnit)

\* playheadPx = currentTime * pixelsPerSecond, in whole px
PlayheadPx(ct, zoom) ==
    (ct * PIXELS_PER_SECOND_BASE * zoom) \div (TicksPerSecond * ZoomUnit)

\* the largest scrollLeft the element accepts while the content laid out by
\* render v is wider than the element
MaxScrollLeft(v) ==
    Max(0, TotalWidth(v.videoDuration, v.zoomLevel) - ViewportWidth)

\* an assignment to scrollLeft, or scrollTo({left}): the element keeps the
\* value within what its content allows
ClampScroll(left, v) == Max(0, Min(MaxScrollLeft(v), left))

\* no zoom gesture to follow
NoAnchor == [phase |-> "none", mouseX |-> 0, scrollLeft |-> 0, zoom |-> 0,
             newZoom |-> 0]

\* the ruler at rest: isScrubbing is the Timeline state, rendered its value
\* at the last render, listening tells whether the window listeners added
\* by the ruler's mousedown are attached, pointer whether the button is held
NoRuler == [isScrubbing |-> FALSE, rendered |-> FALSE, listening |-> FALSE,
            pointer |-> "up"]

NoScroller == [scrollLeft |-> 0, anchor |-> NoAnchor, ruler |-> NoRuler]

\* the effect of lines 156-169, run after a render that changed currentTime,
\* duration or pixelsPerSecond: bring the playhead back into the middle 60 %
AutoScroll(left, v) ==
    LET playheadPx == PlayheadPx(v.currentTime, v.zoomLevel)
        buffer == ViewportWidth \div 5
    IN  IF v.videoDuration <= 0 THEN left
        ELSE IF playheadPx < left + buffer
                \/ playheadPx > left + ViewportWidth - buffer
        THEN ClampScroll(playheadPx - ViewportWidth \div 2, v)
        ELSE left

\* the scroll position after the content of render v replaced that of render
\* old: the element keeps it within the new content, then the effect runs
RenderScroll(left, old, v) ==
    LET kept == ClampScroll(left, v)
    IN  IF <<old.currentTime, old.videoDuration, old.zoomLevel>>
           # <<v.currentTime, v.videoDuration, v.zoomLevel>>
        THEN AutoScroll(kept, v)
        ELSE kept

\* the same with the isScrubbing dependency and early return of the effect
RenderScrollOf(s, old, v) ==
    LET kept == ClampScroll(s.scrollLeft, v)
    IN  IF s.ruler.isScrubbing THEN kept
        ELSE IF s.ruler.rendered THEN AutoScroll(kept, v)
        ELSE RenderScroll(s.scrollLeft, old, v)

\* the TimeRuler effect depends on duration and totalWidth: when one of them
\* changed, its cleanup removes the window listeners
RulerAfterRender(ruler, old, v) ==
    [ruler EXCEPT
       !.rendered = ruler.isScrubbing,
       !.listening = /\ ruler.listening
                     /\ old.videoDuration = v.videoDuration
                     /\ TotalWidth(old.videoDuration, old.zoomLevel)
                          = TotalWidth(v.videoDuration, v.zoomLevel)]

\* a re-render: the handlers are recreated over the current state
Render ==
    /\ view' = CurrentView
    /\ last' = Op("render", FALSE)
    /\ ur' = Kept(ur, IF ur.phase \in {"undone", "rendered"}
             THEN [ur EXCEPT !.phase = "rendered"] ELSE NoUR)
    /\ scroller' = [scrollLeft |-> RenderScrollOf(scroller, view, CurrentView),
                    anchor |-> IF scroller.anchor.phase = "wheeled"
                                  /\ zoomLevel = scroller.anchor.newZoom
                               THEN [scroller.anchor EXCEPT !.phase = "rendered"]
                               ELSE NoAnchor,
                    ruler |-> RulerAfterRender(scroller.ruler, view, CurrentView)]
    /\ UNCHANGED <<history, historyIndex, sortedCaptions, selectedCaptionIndex,
                   dragState, isNudgingRef, videoDuration, currentTime,
                   zoomLevel, video, exp, burst, gest>>

\* ------------------------------------------------------- style handlers
\* handleStyleChange(field, value, merge)
StyleUpdater(prev, field, value) ==
    [prev EXCEPT !.styles = [prev.styles EXCEPT ![field] = value]]

handleStyleChange(field, value, merge) ==
    /\ updateState(StyleUpdater(stateToUpdate, field, value), merge)
    /\ StaleBound
    /\ last' = Op("commit", merge)
    /\ gest' = Kept(gest, NoGesture)
    /\ UNCHANGED <<uiVars, view>>

\* sliders: handleStyleInputChange(field, value) = handleStyleChange(.., true)
handleStyleInputChange == \E value \in FontSizes :
    handleStyleChange("fontSize", value, TRUE)

\* effect buttons: handleStyleChange('effect', value)
EffectButton == \E value \in Effects :
    handleStyleChange("effect", value, FALSE)

\* ------------------------------------------------------ specification:
\* the history manager driven by the style controls
Caption(s, e, t) == [start |-> s, end |-> e, text |-> t]

HistCaptions == <<Caption(0, 12, <<"A">>), Caption(18, 30, <<"B">>)>>

\* the video element after load: paused at 0, no seek pending
NoVideo == [currentTime |-> 0, paused |-> TRUE, seeking |-> FALSE,
            onseeked |-> "null"]

\* no subtitle file has been downloaded
NoSRT == [done |-> FALSE, captions |-> <<>>, content |-> <<>>]

\* no export has been started; outcome is how the last click on "Export
\* Video" ended and click flips with every such click
\* the shadow attributes of a 2D context; a transparent shadow paints nothing
NoShadow == [color |-> "transparent", blur |-> 0, offsetX |-> 0, offsetY |-> 0]

\* a fresh CanvasRenderingContext2D: transparent shadow, black 1px stroke
InitialContext == [shadow |-> NoShadow, strokeStyle |-> "#000000", lineWidth |-> 1]

\* no ctx.strokeText call
NoStroke == [painted |-> FALSE, strokeStyle |-> "transparent", lineWidth |-> 0,
             shadow |-> NoShadow]

\* the effect fields of StyleOptions, before any call
NullStyle == [effect |-> "null", shadowColor |-> "transparent", shadowBlur |-> 0,
              shadowOffsetX |-> 0, shadowOffsetY |-> 0,
              strokeColor |-> "transparent", strokeWidth |-> 0]

\* the characters a measured line is made of
Glyphs == {"a", "b", " "}

\* the canvas before the first drawText: ctx is the context, the other fields
\* record the last call (its inputs, its lines per explicit line and in all,
\* and the settings in force at each of its paint operations)
NoCanvas == [ctx |-> InitialContext,
             text |-> <<>>, maxWidthPx |-> 0, width |-> [g \in Glyphs |-> 0],
             byLine |-> <<>>, allLines |-> <<>>,
             styles |-> NullStyle, previous |-> "null",
             boxShadow |-> NoShadow, textShadow |-> NoShadow,
             strokeText |-> NoStroke]

NoExport == [isExporting |-> FALSE, exportProgress |-> 0, pc |-> "idle",
             i |-> 0, numFrames |-> 0, originalTime |-> 0, frames |-> <<>>,
             recorder |-> "null", captions |-> <<>>, seeks |-> 0,
             outcome |-> "none", click |-> FALSE, srt |-> NoSRT,
             canvas |-> NoCanvas]

InitCommon(caps, dur, kept) ==
    /\ sortedCaptions = caps
    /\ history = << [captions |-> caps, styles |-> DEFAULT_STYLES] >>
    /\ historyIndex = 0
    /\ selectedCaptionIndex = NullIndex
    /\ dragState = NoDrag
    /\ isNudgingRef = FALSE
    /\ videoDuration = dur
    /\ currentTime = 0
    /\ zoomLevel = ZoomUnit
    /\ view = RenderOf(history, 0, caps, NullIndex, NoDrag, dur, 0, ZoomUnit)
    /\ last = [op |-> "init", merge |-> FALSE, edits |-> 0, since |-> 0]
    /\ burst = IF "burst" \in kept THEN NoBurst ELSE Off(NoBurst)
    /\ ur = IF "ur" \in kept THEN NoUR ELSE Off(NoUR)
    /\ gest = IF "gest" \in kept THEN NoGesture ELSE Off(NoGesture)
    /\ video = NoVideo
    /\ exp = NoExport
    /\ scroller = NoScroller

InitHist == InitCommon(HistCaptions, HistDuration, {"burst", "ur"})

NextHist ==
    \/ handleStyleInputChange
    \/ EffectButton
    \/ undo
    \/ redo
    \/ Render

SpecHist == InitHist /\ [][NextHist]_vars

\* ---------------------------------------------------- caption helpers
\* handleCaptionTimeChange updater: set start/end of newCaptions[index]
CaptionTimeUpdater(prev, index, start, end) ==
    IF Has(prev.captions, index)
    THEN [prev EXCEPT !.captions[index + 1].start = start,
                      !.captions[index + 1].end = end]
    ELSE prev

\* handleCaptionTimeChange(index, start, end, merge)
handleCaptionTimeChange(index, start, end, merge) ==
    updateState(CaptionTimeUpdater(stateToUpdate, index, start, end), merge)

\* the captions of the snapshot at the cursor
captions == IF Has(history, historyIndex) THEN At(history, historyIndex).captions
            ELSE sortedCaptions

\* sorted by start, non-overlapping, start < end
Ordered(caps) ==
    \A i \in 1..Len(caps) :
        /\ caps[i].start < caps[i].end
        /\ i > 1 => caps[i - 1].end <= caps[i].start

\* ... and every caption lasts at least 0.1 s
WellFormed(caps) ==
    /\ Ordered(caps)
    /\ \A i \in 1..Len(caps) : caps[i].end - caps[i].start >= MIN_DURATION

\* ------------------------------------------------------- timeline drag
Modes == {"move", "resize-start", "resize-end"}

\* Math.abs(t * pixelsPerSecond - currentTime * pixelsPerSecond) < SNAP_THRESHOLD_PX
\* with pixelsPerSecond = PIXELS_PER_SECOND_BASE * zoomLevel
SnapsTo(t, ct, zoom) ==
    Abs(t - ct) * PIXELS_PER_SECOND_BASE * zoom
        < SNAP_THRESHOLD_PX * TicksPerSecond * ZoomUnit

\* handleClipMouseDown(e, index): select the clip and start a drag
handleClipMouseDown ==
    \E index \in 0..(Len(view.captions) - 1), mode \in Modes :
        /\ selectedCaptionIndex' = index
        /\ dragState' = [index |-> index, mode |-> mode,
                         originalStart |-> At(view.captions, index).start,
                         originalEnd |-> At(view.captions, index).end]
        /\ StaleBound
        /\ last' = Op("mousedown", FALSE)
        /\ gest' = Kept(gest, IF Has(history, historyIndex)
                   THEN [phase |-> "down", base |-> At(history, historyIndex),
                         fresh |-> Fresh]
                   ELSE NoGesture)
        /\ burst' = Kept(burst, NoBurst)
        /\ ur' = Kept(ur, NoUR)
        /\ UNCHANGED <<history, historyIndex, sortedCaptions, isNudgingRef,
                       videoDuration, scroller, currentTime, zoomLevel, view, video, exp>>

\* the start the move handler settles on: shift or resize, snap to the
\* playhead, clamp to 0 and to the previous caption, keep the minimum length
DraggedStart(ds, deltaTime, caps, duration, ct, zoom) ==
    LET s0 == ds.originalStart + deltaTime
        e0 == ds.originalEnd + deltaTime
        s1 == CASE ds.mode = "move" ->
                     IF SnapsTo(s0, ct, zoom) THEN ct
                     ELSE IF SnapsTo(e0, ct, zoom) THEN s0 + (ct - e0)
                     ELSE s0
                [] ds.mode = "resize-start" ->
                     IF SnapsTo(s0, ct, zoom) THEN ct ELSE s0
                [] OTHER -> ds.originalStart
        s2 == Max(0, s1)
    IN  IF Has(caps, ds.index - 1) THEN Max(s2, At(caps, ds.index - 1).end)
        ELSE s2

DraggedEnd_NoEndSnap(ds, deltaTime, caps, duration, ct, zoom) ==
    LET s0 == ds.originalStart + deltaTime
        e0 == ds.originalEnd + deltaTime
        e1 == CASE ds.mode = "move" ->
                     IF SnapsTo(s0, ct, zoom) THEN e0 + (ct - s0) ELSE e0
                [] ds.mode = "resize-end" ->
                     IF SnapsTo(e0, ct, zoom) THEN ct ELSE e0
                [] OTHER -> ds.originalEnd
        e2 == Min(duration, e1)
    IN  IF Has(caps, ds.index + 1) THEN Min(e2, At(caps, ds.index + 1).start)
        ELSE e2

DraggedEnd(ds, deltaTime, caps, duration, ct, zoom) ==
    LET s0 == ds.originalStart + deltaTime
        e0 == ds.originalEnd + deltaTime
        e1 == CASE ds.mode = "move" ->
                     IF SnapsTo(s0, ct, zoom) THEN e0 + (ct - s0)
                     ELSE IF SnapsTo(e0, ct, zoom) THEN ct
                     ELSE e0
                [] ds.mode = "resize-end" ->
                     IF SnapsTo(e0, ct, zoom) THEN ct ELSE e0
                [] OTHER -> ds.originalEnd
        e2 == Min(duration, e1)
    IN  IF Has(caps, ds.index + 1) THEN Min(e2, At(caps, ds.index + 1).start)
        ELSE e2

DragResult_ClampOnly(ds, deltaTime, caps, duration, ct, zoom) ==
    <<DraggedStart(ds, deltaTime, caps, duration, ct, zoom),
      DraggedEnd(ds, deltaTime, caps, duration, ct, zoom)>>

\* <<newStart, newEnd>> handed to onCaptionTimeChange by handleMouseMove
DragResult(ds, deltaTime, caps, duration, ct, zoom) ==
    LET s3 == DraggedStart(ds, deltaTime, caps, duration, ct, zoom)
        e3 == DraggedEnd(ds, deltaTime, caps, duration, ct, zoom)
        tooShort == s3 + MIN_DURATION >= e3
        s4 == IF tooShort /\ ds.mode = "resize-start" THEN e3 - MIN_DURATION ELSE s3
        e4 == IF tooShort /\ ds.mode = "resize-end" THEN s3 + MIN_DURATION ELSE e3
        originalDuration == ds.originalEnd - ds.originalStart
        e5 == IF ds.mode = "move" /\ s4 = 0 THEN s4 + originalDuration ELSE e4
        s5 == IF ds.mode = "move" /\ e5 = duration THEN e5 - originalDuration ELSE s4
    IN  <<s5, e5>>

\* window mousemove while a drag is rendered; deltaTime = deltaX / pixelsPerSecond
handleMouseMove ==
    \E deltaTime \in DragDeltas :
        /\ EditBound
        /\ view.dragState # NoDrag
        /\ view.videoDuration # 0
        /\ LET r == DragResult(view.dragState, deltaTime, view.captions,
                               view.videoDuration, view.currentTime,
                               view.zoomLevel)
           IN  /\ handleCaptionTimeChange(view.dragState.index, r[1], r[2], TRUE)
               /\ gest' = Kept(gest, IF gest.phase \in {"down", "moved"}
                          THEN [gest EXCEPT
                                  !.phase = IF history' # history THEN "moved"
                                            ELSE gest.phase,
                                  !.fresh = gest.fresh /\ Fresh]
                          ELSE NoGesture)
        /\ StaleBound
        /\ last' = Op("mousemove", TRUE)
        /\ UNCHANGED <<uiVars, view>>

\* window mouseup while a drag is rendered
handleMouseUp ==
    /\ view.dragState # NoDrag
    /\ Has(view.captions, view.dragState.index)
    /\ LET finalCaption == At(view.captions, view.dragState.index)
       IN  handleCaptionTimeChange(view.dragState.index, finalCaption.start,
                                   finalCaption.end, FALSE)
    /\ dragState' = NoDrag
    /\ gest' = Kept(gest, IF gest.phase = "moved"
               THEN [gest EXCEPT !.phase = "up", !.fresh = gest.fresh /\ Fresh]
               ELSE NoGesture)
    /\ StaleBound
    /\ last' = Op("mouseup", FALSE)
    /\ UNCHANGED <<sortedCaptions, selectedCaptionIndex, isNudgingRef,
                   videoDuration, scroller, currentTime, zoomLevel, view, video, exp>>

\* the video element's position moves (playback, or a seek that completes)
VideoTimeChanges ==
    \E t \in PlayheadTimes :
        /\ t <= videoDuration
        /\ t # video.currentTime
        /\ video' = [video EXCEPT !.currentTime = t]
        /\ UNCHANGED <<history, historyIndex, sortedCaptions,
                       selectedCaptionIndex, dragState, isNudgingRef,
                       videoDuration, scroller, currentTime, zoomLevel, view, last,
                       burst, ur, gest, exp>>

\* video 'timeupdate': setCurrentTime(video.currentTime)
handleTimeUpdate ==
    /\ currentTime' = video.currentTime
    /\ StaleBound
    /\ last' = Op("timeupdate", FALSE)
    /\ UNCHANGED <<history, historyIndex, sortedCaptions,
                   selectedCaptionIndex, dragState, isNudgingRef,
                   videoDuration, scroller, zoomLevel, view, burst, ur, gest, video, exp>>

\* ------------------------------------------------------ keyboard nudge
\* <<newStart, newEnd>> computed by the arrow-key branch of handleKeyDown
NudgeResult(caps, index, nudgeAmount, duration) ==
    LET caption == At(caps, index)
        len == caption.end - caption.start
        s0 == caption.start + nudgeAmount
        e0 == s0 + len
        s1 == IF s0 < 0 THEN 0 ELSE s0
        e1 == IF s0 < 0 THEN len ELSE e0
        s2 == IF e1 > duration THEN duration - len ELSE s1
        e2 == IF e1 > duration THEN duration ELSE e1
        hitsPrev == Has(caps, index - 1) /\ s2 < At(caps, index - 1).end
        s3 == IF hitsPrev THEN At(caps, index - 1).end ELSE s2
        e3 == IF hitsPrev THEN s3 + len ELSE e2
        hitsNext == Has(caps, index + 1) /\ e3 > At(caps, index + 1).start
        e4 == IF hitsNext THEN At(caps, index + 1).start ELSE e3
        s4 == IF hitsNext THEN e4 - len ELSE s3
    IN  <<s4, e4>>

NudgeAmounts == {0 - 10 * frameDuration, 0 - frameDuration,
                 frameDuration, 10 * frameDuration}

\* the arrow-key branch of handleKeyDown on a selected caption
ArrowKeyNudge(nudgeAmount) ==
    /\ view.selectedCaptionIndex # NullIndex
    /\ Has(view.captions, view.selectedCaptionIndex)
    /\ LET r == NudgeResult(view.captions, view.selectedCaptionIndex,
                            nudgeAmount, view.videoDuration)
       IN  IF r[1] >= 0 /\ r[2] <= view.videoDuration /\ r[2] > r[1]
           THEN /\ handleCaptionTimeChange(view.selectedCaptionIndex,
                                           r[1], r[2], TRUE)
                /\ isNudgingRef' = TRUE
           ELSE UNCHANGED <<history, historyIndex, isNudgingRef, burst, ur>>
    /\ StaleBound
    /\ last' = Op("nudge", TRUE)
    /\ gest' = Kept(gest, NoGesture)
    /\ UNCHANGED <<sortedCaptions, selectedCaptionIndex, dragState,
                   videoDuration, scroller, currentTime, zoomLevel, view,
                   video, exp>>

\* keydown ArrowLeft / ArrowRight (with or without Shift) on a selected caption
ArrowKeyDown ==
    \E nudgeAmount \in NudgeAmounts :
        /\ EditBound
        /\ ArrowKeyNudge(nudgeAmount)

\* the keydown events the held key repeats
ArrowKeyRepeat ==
    \E nudgeAmount \in NudgeAmounts :
        /\ isNudgingRef
        /\ last.edits < MaxNudges
        /\ ArrowKeyNudge(nudgeAmount)

handleKeyUp_Merged ==
    /\ isNudgingRef
    /\ isNudgingRef' = FALSE
    /\ updateState(stateToUpdate, TRUE)
    /\ StaleBound
    /\ last' = Op("keyup", FALSE)
    /\ gest' = Kept(gest, NoGesture)
    /\ UNCHANGED <<sortedCaptions, selectedCaptionIndex, dragState,
                   videoDuration, scroller, currentTime, zoomLevel, view, video, exp>>

\* keyup ArrowLeft / ArrowRight: close the nudge with a non-merged commit
handleKeyUp ==
    /\ isNudgingRef
    /\ isNudgingRef' = FALSE
    /\ updateState(stateToUpdate, FALSE)
    /\ StaleBound
    /\ last' = Op("keyup", FALSE)
    /\ gest' = Kept(gest, NoGesture)
    /\ UNCHANGED <<sortedCaptions, selectedCaptionIndex, dragState,
                   videoDuration, scroller, currentTime, zoomLevel, view, video, exp>>

\* ------------------------------------------------------ drag and nudge
DragCaptions == <<Caption(0, 12, <<"A">>), Caption(18, 30, <<"B">>)>>

InitDrag == InitCommon(DragCaptions, DragDuration, {"gest"})

NextDrag ==
    \/ handleClipMouseDown
    \/ handleMouseMove
    \/ handleMouseUp
    \/ ArrowKeyDown
    \/ handleKeyUp
    \/ VideoTimeChanges
    \/ handleTimeUpdate
    \/ undo
    \/ Render

SpecDrag == InitDrag /\ [][NextDrag]_vars

\* ------------------------------------------------- caption list panel
\* TimeInput.handleBlur: onChange(Math.max(0, Math.min(max, parsedSeconds)))
ClampTime(parsedSeconds, max) == Max(0, Min(max, parsedSeconds))

\* <TimeInput value={caption.start} max={caption.end - 0.1} onChange={newStart =>
\*   handleCaptionTimeChange(index, newStart, caption.end, false)} />
TimeInputStart ==
    \E index \in 0..(Len(view.captions) - 1), parsedSeconds \in TimeInputs :
        LET caption == At(view.captions, index) IN
        /\ ListEditBound
        /\ handleCaptionTimeChange(index,
               ClampTime(parsedSeconds, caption.end - MIN_DURATION),
               caption.end, FALSE)
        /\ StaleBound
        /\ last' = Op("timeinput", FALSE)
        /\ gest' = Kept(gest, NoGesture)
        /\ UNCHANGED <<uiVars, view>>

\* <TimeInput value={caption.end} max={videoDuration} onChange={newEnd =>
\*   handleCaptionTimeChange(index, caption.start, newEnd, false)} />
TimeInputEnd ==
    \E index \in 0..(Len(view.captions) - 1), parsedSeconds \in TimeInputs :
        LET caption == At(view.captions, index) IN
        /\ ListEditBound
        /\ handleCaptionTimeChange(index, caption.start,
               ClampTime(parsedSeconds, view.videoDuration), FALSE)
        /\ StaleBound
        /\ last' = Op("timeinput", FALSE)
        /\ gest' = Kept(gest, NoGesture)
        /\ UNCHANGED <<uiVars, view>>

\* [...caps].sort((a, b) => a.start - b.start): stable, by start
RECURSIVE SortByStart(_)
SortByStart(caps) ==
    IF Len(caps) <= 1 THEN caps
    ELSE LET c == caps[Len(caps)]
             rest == SortByStart(SubSeq(caps, 1, Len(caps) - 1))
             before == SelectSeq(rest, LAMBDA x : x.start <= c.start)
             after == SelectSeq(rest, LAMBDA x : x.start > c.start)
         IN  before \o <<c>> \o after

\* newCaptions.findIndex(c => c.start > time), 0-based, -1 when there is none
FindIndexAfter(caps, time) ==
    LET hits == {i \in 0..(Len(caps) - 1) : At(caps, i).start > time} IN
    IF hits = {} THEN 0 - 1
    ELSE CHOOSE i \in hits : \A j \in hits : i <= j

\* newCaptions.splice(index, 0, c)
InsertAt(caps, index, c) ==
    SubSeq(caps, 1, index) \o <<c>> \o SubSeq(caps, index + 1, Len(caps))

\* newCaptions.splice(index, deleteCount, ...items) for an index in range
Splice(caps, index, deleteCount, items) ==
    SubSeq(caps, 1, index) \o items
        \o SubSeq(caps, index + deleteCount + 1, Len(caps))

NewCaptionText == <<"New">>

\* the updater of handleAddCaption; returns prev when there is no room
AddCaptionUpdater(prev, time, duration) ==
    LET newCaptions == SortByStart(prev.captions)
        end0 == Min(time + NEW_CAPTION_LENGTH, duration)
        insertIndex == FindIndexAfter(newCaptions, time)
    IN  IF insertIndex = 0 - 1
        THEN LET hasLast == Len(newCaptions) > 0
                 start1 == IF hasLast /\ time < newCaptions[Len(newCaptions)].end
                           THEN newCaptions[Len(newCaptions)].end ELSE time
             IN  IF end0 - start1 < MIN_DURATION THEN prev
                 ELSE [prev EXCEPT !.captions =
                          Append(newCaptions, Caption(start1, end0, NewCaptionText))]
        ELSE LET hasPrev == Has(newCaptions, insertIndex - 1)
                 start1 == IF hasPrev /\ time < At(newCaptions, insertIndex - 1).end
                           THEN At(newCaptions, insertIndex - 1).end ELSE time
                 end1 == IF end0 > At(newCaptions, insertIndex).start
                         THEN At(newCaptions, insertIndex).start ELSE end0
             IN  IF end1 - start1 < MIN_DURATION THEN prev
                 ELSE [prev EXCEPT !.captions =
                          InsertAt(newCaptions, insertIndex,
                                   Caption(start1, end1, NewCaptionText))]

\* "Add Caption at Playhead": time = videoRef.current.currentTime
handleAddCaption ==
    /\ ListEditBound
    /\ updateState(AddCaptionUpdater(stateToUpdate, video.currentTime,
                                     view.videoDuration), FALSE)
    /\ StaleBound
    /\ last' = Op("add", FALSE)
    /\ gest' = Kept(gest, NoGesture)
    /\ UNCHANGED <<uiVars, view>>

SplitUpdater_DropsNext(prev, index, time) ==
    LET originalCaption == At(prev.captions, index) IN
    [prev EXCEPT !.captions =
        Splice(prev.captions, index, 2,
               << [originalCaption EXCEPT !.end = time],
                  [originalCaption EXCEPT !.start = time] >>)]

\* the updater of handleSplitCaption
SplitUpdater(prev, index, time) ==
    LET originalCaption == At(prev.captions, index) IN
    [prev EXCEPT !.captions =
        Splice(prev.captions, index, 1,
               << [originalCaption EXCEPT !.end = time],
                  [originalCaption EXCEPT !.start = time] >>)]

\* "Split": enabled while the rendered playhead is inside the caption; the
\* handler re-reads the live video time.  The snapshot it updates holds the
\* index (a stale index past its end is left out).
handleSplitCaption ==
    \E index \in 0..(Len(view.captions) - 1) :
        LET time == video.currentTime
            caption == At(view.captions, index) IN
        /\ ListEditBound
        /\ ~(view.currentTime <= caption.start \/ view.currentTime >= caption.end)
        /\ ~(time <= caption.start \/ time >= caption.end)
        /\ Has(stateToUpdate.captions, index)
        /\ updateState(SplitUpdater(stateToUpdate, index, time), FALSE)
        /\ StaleBound
        /\ last' = Op("split", FALSE)
        /\ gest' = Kept(gest, NoGesture)
        /\ UNCHANGED <<uiVars, view>>

\* "Split" clicked while the video position has left the caption: the handler
\* returns before updateState
handleSplitRefused ==
    \E index \in 0..(Len(view.captions) - 1) :
        LET time == video.currentTime
            caption == At(view.captions, index) IN
        /\ ~(view.currentTime <= caption.start \/ view.currentTime >= caption.end)
        /\ (time <= caption.start \/ time >= caption.end)
        /\ StaleBound
        /\ last' = Op("split-refused", FALSE)
        /\ UNCHANGED <<history, historyIndex, uiVars, view, burst, ur, gest>>

\* the updater of handleMergeCaption
MergeUpdater(prev, index) ==
    LET first == At(prev.captions, index)
        second == At(prev.captions, index + 1) IN
    [prev EXCEPT !.captions =
        Splice(prev.captions, index, 2,
               << Caption(first.start, second.end, first.text \o second.text) >>)]

\* "Merge": enabled unless the caption is the last one rendered
handleMergeCaption ==
    \E index \in 0..(Len(view.captions) - 1) :
        /\ ListEditBound
        /\ ~(index + 1 >= Len(view.captions))
        /\ Has(stateToUpdate.captions, index + 1)
        /\ updateState(MergeUpdater(stateToUpdate, index), FALSE)
        /\ StaleBound
        /\ last' = Op("merge", FALSE)
        /\ gest' = Kept(gest, NoGesture)
        /\ UNCHANGED <<uiVars, view>>

\* the updater of handleDeleteCaption: newCaptions.splice(index, 1)
DeleteUpdater(prev, index) ==
    IF Has(prev.captions, index)
    THEN [prev EXCEPT !.captions = Splice(prev.captions, index, 1, <<>>)]
    ELSE prev

\* handleDeleteCaption(index)
DeleteCaptionAt(index) ==
    /\ ListEditBound
    /\ updateState(DeleteUpdater(stateToUpdate, index), FALSE)
    /\ selectedCaptionIndex' = NullIndex
    /\ StaleBound
    /\ last' = Op("delete", FALSE)
    /\ gest' = Kept(gest, NoGesture)
    /\ UNCHANGED <<sortedCaptions, dragState, isNudgingRef, videoDuration,
                   scroller, currentTime, zoomLevel, view, video, exp>>

\* "Delete" button of a caption row
handleDeleteCaption ==
    \E index \in 0..(Len(view.captions) - 1) : DeleteCaptionAt(index)

\* keydown Delete / Backspace outside an input: deletes the selected caption;
\* without a selection no branch of handleKeyDown matches the key
DeleteKeyDown ==
    IF view.selectedCaptionIndex # NullIndex
    THEN DeleteCaptionAt(view.selectedCaptionIndex)
    ELSE /\ StaleBound
         /\ last' = Op("key", FALSE)
         /\ UNCHANGED <<history, historyIndex, uiVars, view, burst, ur, gest>>

\* handleTimelineClick on a target outside every clip: onSelectCaption(null)
handleTimelineClick ==
    /\ selectedCaptionIndex' = NullIndex
    /\ StaleBound
    /\ last' = Op("timeline-click", FALSE)
    /\ UNCHANGED <<history, historyIndex, sortedCaptions, dragState,
                   isNudgingRef, videoDuration, scroller, currentTime,
                   zoomLevel, view, burst, ur, gest, video, exp>>

EditCaptions == <<Caption(0, 18, <<"A">>), Caption(24, 36, <<"B">>)>>

InitEdit == InitCommon(EditCaptions, EditDuration, {})

NextEdit ==
    \/ TimeInputStart
    \/ TimeInputEnd
    \/ handleAddCaption
    \/ handleSplitCaption
    \/ handleMergeCaption
    \/ handleDeleteCaption
    \/ VideoTimeChanges
    \/ handleTimeUpdate
    \/ Render

SpecEdit == InitEdit /\ [][NextEdit]_vars

\* ---------------------------------------------------------------- split
NextSplit ==
    \/ handleSplitCaption
    \/ handleSplitRefused
    \/ VideoTimeChanges
    \/ handleTimeUpdate
    \/ undo
    \/ Render

SpecSplit == InitEdit /\ [][NextSplit]_vars

\* --------------------------------------------------------------- export
\* the editor state an export run leaves alone
editorVars == <<history, historyIndex, sortedCaptions, selectedCaptionIndex,
                dragState, isNudgingRef, videoDuration, scroller, currentTime, zoomLevel,
                view, last, burst, ur, gest>>

\* Math.floor(video.duration * frameRate)
NumFrames(duration) == (duration * frameRate) \div TicksPerSecond

\* const time = i / frameRate
FrameTime(i) == (i * TicksPerSecond) \div frameRate

\* (i / numFrames) * 100, rounded down; 0 / 0 is NaN
NaNProgress == 0 - 1
Progress(i, numFrames) ==
    IF numFrames = 0 THEN NaNProgress ELSE (i * 100) \div numFrames

LoopContinues_Exclusive(i, numFrames) == i < numFrames

\* for (let i = 0; i <= numFrames; i++)
LoopContinues(i, numFrames) == i <= numFrames

ExportCaptionText_Inclusive(caps, time) ==
    LET hits == {j \in 1..Len(caps) : time >= caps[j].start /\ time <= caps[j].end}
    IN  IF hits = {} THEN <<>>
        ELSE caps[CHOOSE j \in hits : \A h \in hits : j <= h].text

\* renderLoop with no caption being edited: the text of
\* captions[captions.findIndex(c => time >= c.start && time <= c.end)], <<>>
\* when the index is -1
PreviewCaptionText(caps, time) ==
    LET hits == {j \in 1..Len(caps) : time >= caps[j].start /\ time <= caps[j].end}
    IN  IF hits = {} THEN <<>>
        ELSE caps[CHOOSE j \in hits : \A h \in hits : j <= h].text

\* captions.find(c => time >= c.start && time < c.end)?.text, <<>> when none
ExportCaptionText(caps, time) ==
    LET hits == {j \in 1..Len(caps) : time >= caps[j].start /\ time < caps[j].end}
    IN  IF hits = {} THEN <<>>
        ELSE caps[CHOOSE j \in hits : \A h \in hits : j <= h].text

\* the head of one loop iteration, up to its await:
\* setExportProgress(..); video.currentTime = time; video.onseeked = resolve
BeginFrame(e, v, i) ==
    [exp |-> [e EXCEPT !.i = i, !.pc = "awaiting",
                       !.exportProgress = Progress(i, e.numFrames)],
     video |-> [v EXCEPT !.currentTime = FrameTime(i), !.seeking = TRUE,
                         !.onseeked = "resolve"]]

EndLoop_NoRestore(e, v) ==
    [exp |-> [e EXCEPT !.pc = "finished", !.recorder = "stopping"],
     video |-> v]

\* after the loop: recorder.stop(); video.currentTime = originalTime
EndLoop(e, v) ==
    [exp |-> [e EXCEPT !.pc = "finished", !.recorder = "stopping"],
     video |-> [v EXCEPT !.currentTime = e.originalTime, !.seeking = TRUE]]

Iterate_Ahead(e, v, i) ==
    IF LoopContinues(i + 1, e.numFrames) THEN BeginFrame(e, v, i + 1)
    ELSE EndLoop(e, v)

\* the loop test followed by the next iteration's head or the loop's exit
Iterate(e, v, i) ==
    IF LoopContinues(i, e.numFrames) THEN BeginFrame(e, v, i) ELSE EndLoop(e, v)

\* click on "Export Video": handleExport up to its first await
NoMediaRecorder_PausesFirst(e, v) ==
    [exp |-> [e EXCEPT !.outcome = "no-recorder", !.click = ~e.click,
                       !.exportProgress = 0],
     video |-> [v EXCEPT !.paused = TRUE]]

\* typeof MediaRecorder === 'undefined': alert and return
NoMediaRecorder(e, v) ==
    [exp |-> [e EXCEPT !.outcome = "no-recorder", !.click = ~e.click],
     video |-> v]

handleExport ==
    \E hasMediaRecorder \in BOOLEAN, hasContext \in BOOLEAN :
        /\ ~exp.isExporting
        /\ IF ~hasMediaRecorder
           THEN /\ exp' = NoMediaRecorder(exp, video).exp
                /\ video' = NoMediaRecorder(exp, video).video
           ELSE IF ~hasContext
           THEN /\ video' = [video EXCEPT !.paused = TRUE]
                /\ exp' = [exp EXCEPT !.isExporting = FALSE, !.exportProgress = 0,
                                      !.outcome = "no-context",
                                      !.click = ~exp.click]
           ELSE LET e0 == [exp EXCEPT !.isExporting = TRUE,
                                      !.outcome = "started",
                                      !.click = ~exp.click,
                                      !.recorder = "recording",
                                      !.originalTime = video.currentTime,
                                      !.numFrames = NumFrames(videoDuration),
                                      !.frames = <<>>,
                                      !.captions = view.captions,
                                      !.seeks = 0]
                    v0 == [video EXCEPT !.paused = TRUE]
                    r == Iterate(e0, v0, 0)
                IN  /\ exp' = r.exp
                    /\ video' = r.video
        /\ UNCHANGED editorVars

\* the element finishes a seek and fires 'seeked'; a pending await resumes:
\* ctx.drawImage(video, ..), the caption lookup, then the next iteration
handleSeeked ==
    /\ video.seeking
    /\ IF video.onseeked = "resolve" /\ exp.pc = "awaiting"
       THEN LET time == FrameTime(exp.i)
                frame == [i |-> exp.i, time |-> time, pos |-> video.currentTime,
                          text |-> ExportCaptionText(exp.captions, time)]
                e1 == [exp EXCEPT !.frames = Append(exp.frames, frame)]
                v1 == [video EXCEPT !.seeking = FALSE]
                r == Iterate(e1, v1, exp.i + 1)
            IN  /\ exp' = r.exp
                /\ video' = r.video
       ELSE /\ video' = [video EXCEPT !.seeking = FALSE]
            /\ UNCHANGED exp
    /\ UNCHANGED editorVars

handleRecorderStop_KeepsExporting ==
    /\ exp.recorder = "stopping"
    /\ exp' = [exp EXCEPT !.recorder = "inactive"]
    /\ UNCHANGED <<video, editorVars>>

\* recorder.onstop: the download is offered, setIsExporting(false)
handleRecorderStop ==
    /\ exp.recorder = "stopping"
    /\ exp' = [exp EXCEPT !.recorder = "inactive", !.isExporting = FALSE]
    /\ UNCHANGED <<video, editorVars>>

\* handlePlayPause / the space key: play() when paused, pause() otherwise
handlePlayPause ==
    /\ video' = [video EXCEPT !.paused = ~video.paused]
    /\ UNCHANGED <<exp, editorVars>>

\* playback moves the position of a playing video; during an export run the
\* move counts as a position change the loop did not issue
VideoPlays ==
    \E t \in PlayheadTimes :
        /\ ~video.paused
        /\ t <= videoDuration
        /\ t # video.currentTime
        /\ exp.pc = "awaiting" => exp.seeks < MaxUserSeeks
        /\ video' = [video EXCEPT !.currentTime = t]
        /\ exp' = IF exp.pc = "awaiting"
                  THEN [exp EXCEPT !.seeks = exp.seeks + 1] ELSE exp
        /\ UNCHANGED editorVars

\* handleSeek(time) from the keyboard or the timeline while an export runs:
\* video.currentTime = Math.max(0, Math.min(videoDuration, time))
handleSeek ==
    \E time \in PlayheadTimes :
        /\ exp.pc = "awaiting"
        /\ exp.seeks < MaxUserSeeks
        /\ video' = [video EXCEPT
                        !.currentTime = Max(0, Min(view.videoDuration, time)),
                        !.seeking = TRUE]
        /\ exp' = [exp EXCEPT !.seeks = exp.seeks + 1]
        /\ UNCHANGED editorVars

\* a caption spanning [0.5 s, 1.5 s) and one that starts where it ends
ExportCaptions ==
    <<Caption(TicksPerSecond \div 2, (3 * TicksPerSecond) \div 2, <<"A">>),
      Caption((3 * TicksPerSecond) \div 2, (9 * TicksPerSecond) \div 5, <<"B">>)>>

\* video lengths in ticks: shorter than a frame, between frames, and 2 s
ExportDurations == {1, 5, 2 * TicksPerSecond}

InitExport == \E dur \in ExportDurations : InitCommon(ExportCaptions, dur, {})

NextExport ==
    \/ handleExport
    \/ handleSeeked
    \/ handleRecorderStop
    \/ handleSeek
    \/ handlePlayPause
    \/ VideoPlays

SpecExport == InitExport /\ [][NextExport]_vars

\* the browser delivers the 'seeked' event of a started seek and the 'stop'
\* event of a stopped recorder
SpecExportLive ==
    /\ InitExport
    /\ [][NextExport]_vars
    /\ WF_vars(handleSeeked)
    /\ WF_vars(handleRecorderStop)

\* ----------------------------------------------------------- SRT download
\* text is a sequence of characters; the fixed pieces " --> " and the line
\* feed are single elements
LF == "LF"
Arrow == " --> "

Digit(n) == <<"0", "1", "2", "3", "4", "5", "6", "7", "8", "9">>[n + 1]

\* a number as w decimal digits, leading zeros included
RECURSIVE Pad(_, _)
Pad(n, w) == IF w = 0 THEN <<>> ELSE Pad(n \div 10, w - 1) \o <<Digit(n % 10)>>

\* `${index + 1}`
RECURSIVE DecimalString(_)
DecimalString(n) ==
    IF n < 10 THEN <<Digit(n)>> ELSE DecimalString(n \div 10) \o <<Digit(n % 10)>>

\* const date = new Date(0); date.setSeconds(seconds): the seconds field takes
\* the integer part of its argument and the milliseconds field keeps its 0;
\* the result is the time value in milliseconds
DateSetSeconds(seconds) == (seconds \div TicksPerSecond) * 1000

\* date.toISOString().substr(11, 12): "HH:MM:SS.mmm" of the time value
ISOTime(tv) ==
    Pad((tv \div 3600000) % 24, 2) \o <<":">> \o
    Pad((tv \div 60000) % 60, 2) \o <<":">> \o
    Pad((tv \div 1000) % 60, 2) \o <<".">> \o
    Pad(tv % 1000, 3)

\* time.replace(a, b): the first occurrence only
RECURSIVE ReplaceFirst(_, _, _)
ReplaceFirst(s, a, b) ==
    IF s = <<>> THEN <<>>
    ELSE IF Head(s) = a THEN <<b>> \o Tail(s)
    ELSE <<Head(s)>> \o ReplaceFirst(Tail(s), a, b)

formatSRTTime(seconds) == ReplaceFirst(ISOTime(DateSetSeconds(seconds)), ".", ",")

\* `${index + 1}\n${formatSRTTime(caption.start)} --> ${formatSRTTime(caption.end)}\n${caption.text}\n`
SRTBlock(caption, index) ==
    DecimalString(index + 1) \o <<LF>> \o
    formatSRTTime(caption.start) \o <<Arrow>> \o formatSRTTime(caption.end) \o <<LF>> \o
    caption.text \o <<LF>>

\* blocks.join('\n')
RECURSIVE Join(_, _)
Join(blocks, sep) ==
    IF Len(blocks) = 0 THEN <<>>
    ELSE IF Len(blocks) = 1 THEN blocks[1]
    ELSE blocks[1] \o <<sep>> \o Join(Tail(blocks), sep)

\* captions.map((caption, index) => ...).join('\n')
srtContent(caps) ==
    Join([k \in 1..Len(caps) |-> SRTBlock(caps[k], k - 1)], LF)

\* "Download SRT": the content is built from the captions of the rendered view
handleDownloadSRT ==
    /\ exp' = [exp EXCEPT !.srt = [done |-> TRUE, captions |-> view.captions,
                                   content |-> srtContent(view.captions)]]
    /\ UNCHANGED <<video, editorVars>>

SrtDuration == 150

\* no caption; 0-1 s "A" and 1.5-2 s "B"; 1 h 1 min 1.25 s - 1 h 1 min 2 s "C"
SrtCaptionLists ==
    { <<>>,
      <<Caption(0, 60, <<"A">>), Caption(90, 120, <<"B">>)>>,
      <<Caption(219675, 219720, <<"C">>)>> }

InitSRT == \E caps \in SrtCaptionLists : InitCommon(caps, SrtDuration, {})

NextSRT ==
    \/ TimeInputStart
    \/ TimeInputEnd
    \/ handleDeleteCaption
    \/ Render
    \/ handleDownloadSRT

SpecSRT == InitSRT /\ [][NextSRT]_vars

\* ----------------------------------------------------------------- zoom
\* the clamp range of the zoom level: 0.2 and 5
ZOOM_MIN == 2
ZOOM_MAX == 5 * ZoomUnit

\* the step of the zoom buttons: 0.2
ZOOM_STEP == 2

ZoomIn_Unclamped(z) == z + ZOOM_STEP

\* "+": setZoomLevel(z => Math.min(5, z + 0.2))
ZoomIn(z) == Min(ZOOM_MAX, z + ZOOM_STEP)

\* "-": setZoomLevel(z => Math.max(0.2, z - 0.2))
ZoomOut(z) == Max(ZOOM_MIN, z - ZOOM_STEP)

\* Math.max(0.2, Math.min(5, zoomLevel + zoomFactor))
WheelZoom(z, zoomFactor) == Max(ZOOM_MIN, Min(ZOOM_MAX, z + zoomFactor))

\* timeAtCursor * newPixelsPerSecond - mouseX with
\* timeAtCursor = (scrollLeft + mouseX) / pixelsPerSecond, in whole px
NewScrollLeft(scrollLeft, mouseX, zoom, newZoom) ==
    ((scrollLeft + mouseX) * newZoom) \div zoom - mouseX

\* values of the range input (min 0.2, max 5, step 0.1), -e.deltaY * 0.005 of
\* wheel events, pointer offsets in the viewport and scroll targets, in px
ZoomSliderValues == {ZOOM_MIN, 5, ZoomUnit, 2 * ZoomUnit, ZOOM_MAX}
WheelZoomFactors == {0 - 60, 0 - 5, 5, 10}
MouseXs == {0, 100, 150}
ScrollTargets == {0, 60, 100}

ZoomInButton ==
    /\ zoomLevel' = ZoomIn(zoomLevel)
    /\ StaleBound
    /\ last' = Op("zoom-in", FALSE)
    /\ scroller' = [scroller EXCEPT !.anchor = NoAnchor]
    /\ UNCHANGED <<history, historyIndex, sortedCaptions, selectedCaptionIndex,
                   dragState, isNudgingRef, videoDuration, currentTime, view,
                   burst, ur, gest, video, exp>>

ZoomOutButton ==
    /\ zoomLevel' = ZoomOut(zoomLevel)
    /\ StaleBound
    /\ last' = Op("zoom-out", FALSE)
    /\ scroller' = [scroller EXCEPT !.anchor = NoAnchor]
    /\ UNCHANGED <<history, historyIndex, sortedCaptions, selectedCaptionIndex,
                   dragState, isNudgingRef, videoDuration, currentTime, view,
                   burst, ur, gest, video, exp>>

\* the zoom slider: setZoomLevel(parseFloat(e.target.value))
ZoomSlider ==
    \E value \in ZoomSliderValues :
        /\ zoomLevel' = value
        /\ StaleBound
        /\ last' = Op("zoom-slider", FALSE)
        /\ scroller' = [scroller EXCEPT !.anchor = NoAnchor]
        /\ UNCHANGED <<history, historyIndex, sortedCaptions,
                       selectedCaptionIndex, dragState, isNudgingRef,
                       videoDuration, currentTime, view, burst, ur, gest,
                       video, exp>>

\* handleWheel with ctrlKey or metaKey: zoom about the pointer
handleWheel ==
    \E zoomFactor \in WheelZoomFactors, mouseX \in MouseXs :
        LET newZoom == WheelZoom(view.zoomLevel, zoomFactor)
            newScrollLeft == NewScrollLeft(scroller.scrollLeft, mouseX,
                                           view.zoomLevel, newZoom)
        IN  /\ zoomLevel' = newZoom
            /\ scroller' = [scrollLeft |-> ClampScroll(newScrollLeft, view),
                            anchor |-> [phase |-> "wheeled", mouseX |-> mouseX,
                                        scrollLeft |-> scroller.scrollLeft,
                                        zoom |-> view.zoomLevel,
                                        newZoom |-> newZoom],
                            ruler |-> scroller.ruler]
            /\ WheelBound
            /\ StaleBound
            /\ last' = Op("wheel", FALSE)
            /\ UNCHANGED <<history, historyIndex, sortedCaptions,
                           selectedCaptionIndex, dragState, isNudgingRef,
                           videoDuration, currentTime, view, burst, ur, gest,
                           video, exp>>

\* the user scrolls the timeline (overflow-x-auto)
UserScrolls ==
    \E left \in ScrollTargets :
        /\ scroller' = [scrollLeft |-> ClampScroll(left, view),
                        anchor |-> NoAnchor, ruler |-> scroller.ruler]
        /\ scroller'.scrollLeft # scroller.scrollLeft
        /\ StaleBound
        /\ last' = Op("scroll", FALSE)
        /\ UNCHANGED <<history, historyIndex, sortedCaptions,
                       selectedCaptionIndex, dragState, isNudgingRef,
                       videoDuration, currentTime, zoomLevel, view,
                       burst, ur, gest, video, exp>>

ZoomDuration == 2 * TicksPerSecond

ZoomCaptions == <<Caption(30, 90, <<"A">>)>>

InitZoom == InitCommon(ZoomCaptions, ZoomDuration, {})

NextZoom ==
    \/ ZoomInButton
    \/ ZoomOutButton
    \/ ZoomSlider
    \/ handleWheel
    \/ Render

SpecZoom == InitZoom /\ [][NextZoom]_vars

NextScroll ==
    \/ handleWheel
    \/ UserScrolls
    \/ VideoTimeChanges
    \/ handleTimeUpdate
    \/ Render

SpecScroll == InitZoom /\ [][NextScroll]_vars

\* ------------------------------------------------------------ selection
InitSelect == InitCommon(EditCaptions, EditDuration, {})

NextSelect ==
    \/ handleClipMouseDown
    \/ handleMouseUp
    \/ handleTimelineClick
    \/ DeleteKeyDown
    \/ handleMergeCaption
    \/ undo
    \/ Render

SpecSelect == InitSelect /\ [][NextSelect]_vars

\* ---------------------------------------------------------- nudge burst
InitNudge == InitCommon(DragCaptions, DragDuration, {"burst"})

NextNudge ==
    \/ handleClipMouseDown
    \/ handleMouseUp
    \/ ArrowKeyDown
    \/ ArrowKeyRepeat
    \/ handleKeyUp
    \/ undo
    \/ Render

SpecNudge == InitNudge /\ [][NextNudge]_vars

\* ------------------------------------------------------- snap of a drag
\* one clip of 0.2 s without neighbours in a 1 s video
SnapCaptions == <<Caption(10, 22, <<"A">>)>>
SnapDuration == TicksPerSecond

InitSnap == InitCommon(SnapCaptions, SnapDuration, {})

NextSnap ==
    \/ handleClipMouseDown
    \/ handleMouseMove
    \/ ZoomSlider
    \/ VideoTimeChanges
    \/ handleTimeUpdate
    \/ Render

SpecSnap == InitSnap /\ [][NextSnap]_vars

\* --------------------------------------------------------------- canvas
MaxTextLen == 4

\* caption texts: characters and line feeds
Texts == UNION { [1..n -> Glyphs \cup {LF}] : n \in 0..MaxTextLen }

\* (styles.maxWidth / 100) * videoWidth, in px
MaxWidths == {2, 3, 5}

\* the advance of each character in the font set by ctx.font, in px
CharWidths == { [g \in Glyphs |-> IF g = "a" THEN 1 ELSE IF g = "b" THEN 2 ELSE 1],
                [g \in Glyphs |-> IF g = "a" THEN 3 ELSE IF g = "b" THEN 1 ELSE 2] }

\* String.prototype.split(separator): one piece more than there are
\* separators, empty pieces included
RECURSIVE Split(_, _)
Split(s, separator) ==
    IF s = <<>> THEN << <<>> >>
    ELSE LET rest == Split(Tail(s), separator)
         IN  IF Head(s) = separator THEN << <<>> >> \o rest
             ELSE << <<Head(s)>> \o rest[1] >> \o Tail(rest)

\* ctx.measureText(line).width
RECURSIVE measureText(_, _)
measureText(line, width) ==
    IF line = <<>> THEN 0 ELSE width[Head(line)] + measureText(Tail(line), width)

\* the for loop over the words of one explicit line, and the push after it;
\* an empty currentLine is falsy
RECURSIVE WrapWords_KeepsSeparator(_, _, _, _)
WrapWords_KeepsSeparator(words, currentLine, maxWidthPx, width) ==
    IF words = <<>> THEN <<currentLine>>
    ELSE LET word == Head(words)
             testLine == IF currentLine # <<>> THEN currentLine \o <<" ">> \o word
                         ELSE word
         IN  IF measureText(testLine, width) > maxWidthPx /\ currentLine # <<>>
             THEN <<currentLine \o <<" ">> >>
                  \o WrapWords_KeepsSeparator(Tail(words), word, maxWidthPx, width)
             ELSE WrapWords_KeepsSeparator(Tail(words), testLine, maxWidthPx, width)

RECURSIVE WrapWords(_, _, _, _)
WrapWords(words, currentLine, maxWidthPx, width) ==
    IF words = <<>> THEN <<currentLine>>
    ELSE LET word == Head(words)
             testLine == IF currentLine # <<>> THEN currentLine \o <<" ">> \o word
                         ELSE word
         IN  IF measureText(testLine, width) > maxWidthPx /\ currentLine # <<>>
             THEN <<currentLine>> \o WrapWords(Tail(words), word, maxWidthPx, width)
             ELSE WrapWords(Tail(words), testLine, maxWidthPx, width)

\* the lines pushed for one explicit line
WrapLine(initialLine, maxWidthPx, width) ==
    WrapWords(Split(initialLine, " "), <<>>, maxWidthPx, width)

\* text.split('\n'), each explicit line wrapped on its own
WrapExplicitLines(text, maxWidthPx, width) ==
    LET initialLines == Split(text, LF)
    IN  [k \in 1..Len(initialLines) |-> WrapLine(initialLines[k], maxWidthPx, width)]

RECURSIVE Concat(_)
Concat(seqs) == IF seqs = <<>> THEN <<>> ELSE Head(seqs) \o Concat(Tail(seqs))

\* allLines after the forEach
AllLines(text, maxWidthPx, width) == Concat(WrapExplicitLines(text, maxWidthPx, width))

\* the effect fields of StyleOptions
Style(effect, shadowColor, shadowBlur, shadowOffset, strokeColor, strokeWidth) ==
    [effect |-> effect, shadowColor |-> shadowColor, shadowBlur |-> shadowBlur,
     shadowOffsetX |-> shadowOffset, shadowOffsetY |-> shadowOffset,
     strokeColor |-> strokeColor, strokeWidth |-> strokeWidth]

CanvasStyles == { Style("none", "#000000", 4, 2, "#000000", 2),
                  Style("shadow", "#000000", 4, 2, "#000000", 2),
                  Style("shadow", "#ff0000", 0, 0 - 3, "#000000", 2),
                  Style("outline", "#000000", 4, 2, "#ffffff", 3),
                  Style("outline", "#000000", 4, 2, "#ffffff", 0) }

\* the lineWidth setter ignores zero and negative values
SetLineWidth(ctx, value) ==
    IF value > 0 THEN [ctx EXCEPT !.lineWidth = value] ELSE ctx

\* the first two statements of drawText
ResetEffects_Nothing(ctx) == ctx

ResetEffects(ctx) ==
    SetLineWidth([ctx EXCEPT !.shadow = NoShadow, !.strokeStyle = "transparent"], 0)

\* if (styles.effect === 'shadow') ... else if (styles.effect === 'outline') ...
ApplyEffect(ctx, styles) ==
    IF styles.effect = "shadow"
    THEN [ctx EXCEPT !.shadow = [color |-> styles.shadowColor,
                                 blur |-> styles.shadowBlur,
                                 offsetX |-> styles.shadowOffsetX,
                                 offsetY |-> styles.shadowOffsetY]]
    ELSE IF styles.effect = "outline"
    THEN SetLineWidth([ctx EXCEPT !.strokeStyle = styles.strokeColor],
                      styles.strokeWidth)
    ELSE ctx

\* drawText has been called
Drawn == exp.canvas.styles.effect # "null"

\* drawText(ctx, text, styles, videoWidth, videoHeight); the calls of one
\* behaviour draw one text in one font at one width, in any styles
drawText ==
    \E text \in IF Drawn THEN {exp.canvas.text} ELSE Texts,
       maxWidthPx \in IF Drawn THEN {exp.canvas.maxWidthPx} ELSE MaxWidths,
       width \in IF Drawn THEN {exp.canvas.width} ELSE CharWidths,
       styles \in CanvasStyles :
       /\ LET reset == ResetEffects(exp.canvas.ctx)
              ctx == ApplyEffect(reset, styles)
          IN  exp' = [exp EXCEPT !.canvas =
                        [ctx |-> ctx,
                         text |-> text, maxWidthPx |-> maxWidthPx, width |-> width,
                         byLine |-> WrapExplicitLines(text, maxWidthPx, width),
                         allLines |-> AllLines(text, maxWidthPx, width),
                         styles |-> styles,
                         previous |-> exp.canvas.styles.effect,
                         boxShadow |-> reset.shadow,
                         textShadow |-> ctx.shadow,
                         strokeText |->
                            IF styles.effect = "outline" /\ styles.strokeWidth > 0
                            THEN [painted |-> TRUE, strokeStyle |-> ctx.strokeStyle,
                                  lineWidth |-> ctx.lineWidth, shadow |-> ctx.shadow]
                            ELSE NoStroke]]
       /\ UNCHANGED <<video, editorVars>>

InitCanvas == InitCommon(EditCaptions, EditDuration, {})

NextCanvas ==
    \/ drawText

SpecCanvas == InitCanvas /\ [][NextCanvas]_vars

\* ---------------------------------------------------------- time ruler
\* handleInteraction: onSeek(Math.max(0, Math.min(duration, time))), which
\* is video.currentTime = ...
RulerSeek(v, time) ==
    [v EXCEPT !.currentTime = Max(0, Min(view.videoDuration, time)),
              !.seeking = TRUE]

\* mousedown on the ruler: onScrub(true), seek, add the window listeners
RulerMouseDown ==
    \E time \in PlayheadTimes :
        /\ scroller.ruler.pointer = "up"
        /\ view.videoDuration > 0
        /\ scroller' = [scroller EXCEPT !.ruler.isScrubbing = TRUE,
                                        !.ruler.listening = TRUE,
                                        !.ruler.pointer = "down"]
        /\ video' = RulerSeek(video, time)
        /\ StaleBound
        /\ last' = Op("ruler-down", FALSE)
        /\ UNCHANGED <<history, historyIndex, sortedCaptions,
                       selectedCaptionIndex, dragState, isNudgingRef,
                       videoDuration, currentTime, zoomLevel, view, burst, ur,
                       gest, exp>>

\* window mousemove while the ruler's listeners are attached: seek
RulerMouseMove ==
    \E time \in PlayheadTimes :
        /\ scroller.ruler.pointer = "down"
        /\ scroller.ruler.listening
        /\ video' = RulerSeek(video, time)
        /\ video' # video
        /\ StaleBound
        /\ last' = Op("ruler-move", FALSE)
        /\ UNCHANGED <<history, historyIndex, sortedCaptions,
                       selectedCaptionIndex, dragState, isNudgingRef,
                       videoDuration, scroller, currentTime, zoomLevel, view,
                       burst, ur, gest, exp>>

\* the button pressed on the ruler is released: the window mouseup listener,
\* if it is still attached, calls onScrub(false) and removes the listeners
RulerMouseUp ==
    /\ scroller.ruler.pointer = "down"
    /\ scroller' = IF scroller.ruler.listening
                   THEN [scroller EXCEPT !.ruler.isScrubbing = FALSE,
                                         !.ruler.listening = FALSE,
                                         !.ruler.pointer = "up"]
                   ELSE [scroller EXCEPT !.ruler.pointer = "up"]
    /\ StaleBound
    /\ last' = Op("ruler-up", FALSE)
    /\ UNCHANGED <<history, historyIndex, sortedCaptions,
                   selectedCaptionIndex, dragState, isNudgingRef,
                   videoDuration, currentTime, zoomLevel, view, burst, ur, gest,
                   video, exp>>

NextRuler ==
    \/ RulerMouseDown
    \/ RulerMouseMove
    \/ RulerMouseUp
    \/ handleWheel
    \/ handleTimeUpdate
    \/ Render

SpecRuler == InitZoom /\ [][NextRuler]_vars

\* --------------------------------------- nudge of a list edited by hand
\* keydown ArrowLeft / ArrowRight after edits in the caption panel
ArrowKeyAfterEdit ==
    \E nudgeAmount \in NudgeAmounts :
        /\ ListEditBound
        /\ ArrowKeyNudge(nudgeAmount)

NextNudgeEdit ==
    \/ TimeInputStart
    \/ TimeInputEnd
    \/ handleClipMouseDown
    \/ ArrowKeyAfterEdit
    \/ Render

SpecNudgeEdit == InitEdit /\ [][NextNudgeEdit]_vars

\* ------------------------------------ resize at any playhead and zoom
NextResize ==
    \/ handleClipMouseDown
    \/ handleMouseMove
    \/ ZoomSlider
    \/ VideoTimeChanges
    \/ handleTimeUpdate
    \/ Render

SpecResize == InitCommon(DragCaptions, DragDuration, {}) /\ [][NextResize]_vars

\* ------------------------------------------------- one pointer gesture
NextGesture ==
    \/ handleClipMouseDown
    \/ handleMouseMove
    \/ handleMouseUp
    \/ undo
    \/ Render

SpecGesture == InitDrag /\ [][NextGesture]_vars

\* ------------------------------------------------------- history claims
IsCommit(l, merge) == l.op = "commit" /\ l.merge = merge

\* C1: in every reachable state 0 <= cursor < snapshots.length, also when
\* commits are issued by handlers holding the cursor of the last render.
C1_CursorInRange == 0 <= historyIndex /\ historyIndex < Len(history)

\* C3 (as claimed): n merged commits followed by one non-merged commit
\* leave snapshots.length exactly 1 greater than before the sequence; stated
\* here for handlers that hold the current cursor.
C3_LengthPlusOne ==
    (burst.phase = "done" /\ burst.fresh) => Len(history) = burst.len0 + 1

\* C3 (amended): n >= 0 merged commits followed by one non-merged commit,
\* all issued with handler cursor k, leave snapshots.length = k + 2 whatever
\* n is; that is 1 more than before exactly when entry k was the last entry
\* (the entries after k are dropped).
C3_LengthFromCursor ==
    burst.phase = "done" =>
        /\ Len(history) = burst.k + 2
        /\ (Len(history) = burst.len0 + 1) <=> (burst.k = burst.len0 - 1)

C3_Witness ==
    /\ burst.phase = "done" /\ burst.n >= 2 /\ burst.fresh
    /\ burst.k < burst.len0 - 1

\* C4 (as claimed): undo() followed by redo() leaves the cursor on a snapshot
\* equal to the one current before the undo and the list unchanged, from
\* any reachable state; stated for handlers that hold the current cursor.
C4_UndoRedoRestores ==
    (ur.phase = "redone" /\ ur.fresh /\ Has(ur.hist0, ur.cursor0)) =>
        /\ history = ur.hist0
        /\ Has(history, historyIndex)
        /\ At(history, historyIndex) = At(ur.hist0, ur.cursor0)

\* C4 (amended): undo() issued with handler cursor k, 0 < k < length,
\* followed after a re-render by redo() leaves the cursor at k and the
\* snapshot list unchanged, so the snapshot current before the undo is
\* current again whenever the undo handler held the current cursor.
C4_UndoRedoFromPositive ==
    (ur.phase = "redone" /\ ur.k > 0 /\ ur.k < Len(ur.hist0)) =>
        /\ history = ur.hist0
        /\ historyIndex = ur.k
        /\ (ur.k = ur.cursor0 =>
                At(history, historyIndex) = At(ur.hist0, ur.cursor0))

C4_Witness ==
    /\ ur.phase = "redone" /\ ur.fresh
    /\ ur.k > 0 /\ ur.k = ur.cursor0 /\ ur.k < Len(ur.hist0)
    /\ At(ur.hist0, ur.k) # At(ur.hist0, ur.k - 1)

C8_CommitAppendsAtCursor ==
    [][ IsCommit(last', FALSE) =>
            /\ historyIndex' = historyIndex + 1
            /\ Len(history') = historyIndex + 2
            /\ historyIndex' = Len(history') - 1
            /\ \A i \in 1..(historyIndex + 1) : history'[i] = history[i] ]_vars

\* C9: undo decrements the cursor by one when cursor > 0 and is a no-op at
\* cursor 0; redo increments it by one when cursor < snapshots.length - 1 and
\* is a no-op at the last entry; neither changes the snapshot list.
C9_UndoRedoStep ==
    [][ /\ last'.op = "undo" =>
             historyIndex' = IF historyIndex > 0 THEN historyIndex - 1
                             ELSE historyIndex
        /\ last'.op = "redo" =>
             historyIndex' = IF historyIndex < Len(history) - 1
                             THEN historyIndex + 1 ELSE historyIndex
        /\ last'.op \in {"undo", "redo"} => history' = history ]_vars

\* ---------------------------------------------------- drag/nudge claims
\* C2: a complete drag gesture (pointer-down, pointer-moves that change the
\* clip, pointer-up) followed by one undo makes the current snapshot equal to
\* the snapshot that was current at pointer-down.  Stated for gestures whose
\* handlers all ran against the latest render.
C2_DragIsOneUndoStep ==
    (gest.phase = "undone" /\ gest.fresh) =>
        /\ Has(history, historyIndex)
        /\ At(history, historyIndex) = gest.base

\* C5: from a sorted, non-overlapping list whose captions each last >= 0.1 s,
\* every pointer-move of a drag and every keyboard nudge leaves a list in which
\* each caption has start < end, lasts >= 0.1 s and respects its neighbours.
\* Stated for handlers that ran against the latest render.
C5_DragNudgeKeepsWellFormed ==
    [][(last'.op \in {"mousemove", "nudge"} /\ Fresh /\ WellFormed(captions))
         => WellFormed(captions')]_vars

\* C6: from a sorted, non-overlapping list, the list stays sorted by start and
\* non-overlapping (prev.end <= next.start, start < end) after a time-input
\* edit, add-caption-at-playhead, split, merge-with-next and delete.  Stated
\* for handlers that ran against the latest render.
C6_ListEditsKeepOrdered ==
    [][(last'.op \in {"timeinput", "add", "split", "merge", "delete"}
            /\ Fresh /\ Ordered(captions))
         => Ordered(captions')]_vars

\* ------------------------------------------------------- export claims
\* C10: an export of a video of length duration draws exactly
\* floor(duration * 30) + 1 frames, one for each index i = 0..floor(duration * 30)
\* with frame time i / 30, in increasing index order and each index once; a
\* 2-second clip yields exactly 61 frames.
C10_ExportDrawsEachFrameOnce ==
    exp.pc # "idle" =>
        /\ exp.numFrames = NumFrames(videoDuration)
        /\ Len(exp.frames) <= exp.numFrames + 1
        /\ \A j \in 1..Len(exp.frames) :
              /\ exp.frames[j].i = j - 1
              /\ exp.frames[j].time * frameRate = (j - 1) * TicksPerSecond
              /\ exp.seeks = 0 => exp.frames[j].pos = exp.frames[j].time
        /\ exp.pc = "awaiting" => Len(exp.frames) = exp.i
        /\ exp.pc = "finished" =>
              /\ Len(exp.frames) = exp.numFrames + 1
              /\ videoDuration = 2 * TicksPerSecond => Len(exp.frames) = 61

C10_Witness ==
    /\ exp.pc = "finished"
    /\ videoDuration = 2 * TicksPerSecond
    /\ Len(exp.frames) = 61
    /\ exp.frames[61].time = videoDuration

\* the captions of the export whose [start, end) contains t
Holders(t) ==
    {k \in 1..Len(exp.captions) :
        exp.captions[k].start <= t /\ t < exp.captions[k].end}

\* C11: for every exported frame at time t = i / 30, caption text is composited
\* on the frame if and only if some caption has start <= t < end; the text is
\* that of a caption whose [start, end) contains t, and when the captions do
\* not overlap there is at most one such caption.
C11_CaptionOnFrameIffContains ==
    \A j \in 1..Len(exp.frames) :
        LET t == exp.frames[j].time IN
        /\ (exp.frames[j].text # <<>>) <=> (Holders(t) # {})
        /\ Holders(t) # {} =>
              \E k \in Holders(t) : exp.frames[j].text = exp.captions[k].text
        /\ Ordered(exp.captions) => Cardinality(Holders(t)) <= 1

C11_Witness ==
    /\ exp.pc = "finished"
    /\ \E j \in 1..Len(exp.frames) :
          /\ exp.frames[j].time = exp.captions[1].end
          /\ exp.frames[j].text = exp.captions[2].text
    /\ \E j \in 1..Len(exp.frames) : exp.frames[j].text = exp.captions[1].text
    /\ \E j \in 1..Len(exp.frames) : exp.frames[j].text = <<>>

\* C12: the export loop is strictly sequential: the seek for frame i + 1 is
\* issued only in a step in which a seek completion is delivered to the loop
\* waiting on frame i and frame i is drawn, so the frames are drawn in index
\* order.
C12_FramesStrictlySequential ==
    [][(exp.pc = "awaiting" /\ exp'.pc = "awaiting" /\ exp'.i # exp.i) =>
            /\ video.seeking
            /\ video.onseeked = "resolve"
            /\ exp'.i = exp.i + 1
            /\ Len(exp'.frames) = Len(exp.frames) + 1
            /\ exp'.frames[Len(exp'.frames)].i = exp.i
            /\ SubSeq(exp'.frames, 1, Len(exp.frames)) = exp.frames
            /\ video'.seeking]_vars

C12_Witness ==
    /\ exp.pc = "awaiting"
    /\ exp.i >= 2
    /\ video.seeking
    /\ Len(exp.frames) = exp.i
    /\ exp.frames[exp.i].i = exp.i - 1

\* C13: frame i is drawn only after the seek to i / 30 issued by the loop has
\* completed, so the video position at the moment frame i is drawn is i / 30,
\* under every interleaving with other seeks, seek completions and playback.
C13_FrameDrawnAtItsTime ==
    \A j \in 1..Len(exp.frames) : exp.frames[j].pos = exp.frames[j].time

\* C14: when an export completes the recorder is stopped exactly once, in the
\* step that draws the last frame, and that step sets the video position back
\* to the value it had when the export was requested.
C14_FinalizedOnceAndRestored ==
    [][ /\ (exp'.pc = "awaiting" /\ exp.pc # "awaiting") =>
              /\ exp'.originalTime = video.currentTime
              /\ exp'.recorder = "recording"
        /\ (exp'.pc = "awaiting" /\ exp.pc = "awaiting") =>
              /\ exp'.originalTime = exp.originalTime
              /\ exp'.recorder = "recording"
        /\ (exp'.recorder = "stopping" /\ exp.recorder # "stopping") =>
              /\ exp.recorder = "recording"
              /\ exp.pc = "awaiting" /\ exp'.pc = "finished"
              /\ Len(exp'.frames) = exp.numFrames + 1
              /\ exp'.frames[Len(exp'.frames)].i = exp.numFrames
              /\ video'.currentTime = exp.originalTime
        /\ (exp'.pc = "finished" /\ exp.pc # "finished") =>
              exp'.recorder = "stopping" ]_vars

C14_Witness ==
    /\ exp.pc = "finished"
    /\ exp.recorder = "stopping"
    /\ exp.originalTime > 0
    /\ Len(exp.frames) > 1
    /\ exp.frames[Len(exp.frames)].pos # exp.originalTime
    /\ video.currentTime = exp.originalTime

\* C15: when every seek reports completion and the recorder reports its stop,
\* every started export finishes: all frames are drawn, the recorder is
\* stopped and isExporting is false again, so Export can be clicked anew.
ExportFinished ==
    /\ exp.pc = "finished"
    /\ Len(exp.frames) = exp.numFrames + 1
    /\ exp.recorder = "inactive"
    /\ ~exp.isExporting
    /\ ENABLED handleExport

ExportClicked(outcome) == exp'.click # exp.click /\ exp'.outcome = outcome

\* C16: without MediaRecorder the Export click changes no playback state:
\* the video keeps its play/pause state and position, no seek is started,
\* and isExporting, the progress and the run's data stay as they were.
C16_NoRecorderFailsFast ==
    [][ExportClicked("no-recorder") =>
          /\ video' = video
          /\ ~exp.isExporting /\ ~exp'.isExporting
          /\ exp' = [exp EXCEPT !.outcome = "no-recorder",
                                !.click = ~exp.click]
          /\ UNCHANGED editorVars]_vars

C16_Witness ==
    /\ exp.outcome = "no-recorder"
    /\ ~video.paused
    /\ video.currentTime > 0
    /\ ~video.seeking
    /\ ~exp.isExporting

\* C17: when the 2D context cannot be created the Export click leaves the
\* video's play/pause state and position, isExporting and the export
\* progress as they were before the click.
C17_NoContextLeavesStateUnchanged ==
    [][ExportClicked("no-context") =>
          /\ video' = video
          /\ exp'.isExporting = exp.isExporting
          /\ exp'.exportProgress = exp.exportProgress]_vars

\* the state an abort of the running export has to produce: the loop has
\* ended before its last frame, no seek is pending, the recorder is released
\* without a download, the position is the one before the export and no
\* 'seeked' listener is installed
Aborted ==
    /\ exp.pc # "awaiting"
    /\ Len(exp.frames) < exp.numFrames + 1
    /\ ~video.seeking
    /\ exp.recorder \notin {"recording", "stopping"}
    /\ ~exp.isExporting
    /\ video.currentTime = exp.originalTime
    /\ video.onseeked = "null"

\* C18: an export in progress can be aborted: while the loop waits for a
\* frame some step of the program ends the run in an aborted state.
C18_ExportCanBeAborted ==
    (exp.pc = "awaiting" /\ exp.i < exp.numFrames) =>
        ENABLED (NextExport /\ Aborted')

\* C19: the progress reported while frame i is rendered is a number between
\* 0 and 100 for every video length, it never decreases within one export,
\* and it is 100 when the last frame is rendered.
C19_ProgressWellDefined ==
    [][ /\ exp'.pc = "awaiting" =>
              /\ exp'.exportProgress # NaNProgress
              /\ exp'.exportProgress \in 0..100
              /\ exp'.i = exp'.numFrames => exp'.exportProgress = 100
        /\ (exp.pc = "awaiting" /\ exp'.pc = "awaiting") =>
              exp'.exportProgress >= exp.exportProgress ]_vars

\* milliseconds within the second of a time given in ticks
Millis(t) == ((t % TicksPerSecond) * 1000) \div TicksPerSecond

\* 'HH:MM:SS,mmm' of a time given in ticks
SRTTimeOf(t) ==
    LET s == t \div TicksPerSecond IN
    Pad(s \div 3600, 2) \o <<":">> \o Pad((s \div 60) % 60, 2) \o <<":">> \o
    Pad(s % 60, 2) \o <<",">> \o Pad(Millis(t), 3)

\* block k: 'k', the time line, the text, each followed by a line feed
SRTBlockOf(caps, k) ==
    DecimalString(k) \o <<LF>> \o
    SRTTimeOf(caps[k].start) \o <<Arrow>> \o SRTTimeOf(caps[k].end) \o <<LF>> \o
    caps[k].text \o <<LF>>

\* n blocks in list order with one blank line between blocks
RECURSIVE SRTOf(_, _)
SRTOf(caps, n) ==
    IF n = 0 THEN <<>>
    ELSE IF n = 1 THEN SRTBlockOf(caps, 1)
    ELSE SRTOf(caps, n - 1) \o <<LF>> \o SRTBlockOf(caps, n)

\* C20: the SRT content of captions c1..cn is n blocks in list order, block k
\* being k, the time line with start and end to the millisecond, and the
\* text; captions 0-1 s "A", 1.5-2 s "B" give the second time line
\* 00:00:01,500 --> 00:00:02,000.
C20_SRTContentToTheMillisecond ==
    exp.srt.done =>
        exp.srt.content = SRTOf(exp.srt.captions, Len(exp.srt.captions))

\* C23: after any sequence of zoom operations (wheel with a modifier, the +
\* and - buttons, the slider) the zoom level is within [0.2, 5].
C23_ZoomWithinRange ==
    /\ zoomLevel \in ZOOM_MIN..ZOOM_MAX
    /\ view.zoomLevel \in ZOOM_MIN..ZOOM_MAX

C23_Witness ==
    /\ last.op = "zoom-in"
    /\ zoomLevel = ZOOM_MAX
    /\ view.zoomLevel = ZOOM_MAX

\* C24: after a wheel zoom with the pointer at viewport offset mouseX the
\* time under the pointer is the one it was before, to the pixel:
\* (scrollLeft' + mouseX) / newZoom = (scrollLeft + mouseX) / zoom.
C24_ZoomKeepsTimeUnderPointer ==
    scroller.anchor.phase \in {"wheeled", "rendered"} =>
        LET a == scroller.anchor
            wanted == (a.scrollLeft + a.mouseX) * a.newZoom
            got == (scroller.scrollLeft + a.mouseX) * a.zoom
        IN  got <= wanted /\ wanted < got + a.zoom

\* a move drag of the rendered view by deltaTime that has no neighbouring
\* caption and is not clamped at 0 or at the duration
FreeMove(ds, deltaTime, caps, duration, ct, zoom) ==
    LET r == DragResult(ds, deltaTime, caps, duration, ct, zoom)
        s0 == ds.originalStart + deltaTime
        e0 == ds.originalEnd + deltaTime
        shift == IF SnapsTo(s0, ct, zoom) THEN ct - s0
                 ELSE IF SnapsTo(e0, ct, zoom) THEN ct - e0 ELSE 0
    IN  /\ ds.mode = "move"
        /\ ~Has(caps, ds.index - 1) /\ ~Has(caps, ds.index + 1)
        /\ s0 + shift >= 0 /\ e0 + shift <= duration

\* the claim's scenario: caption {1.0, 3.0}, +2.0 s, playhead at 5.0
ScenarioDrag == [index |-> 0, mode |-> "move",
                 originalStart |-> TicksPerSecond,
                 originalEnd |-> 3 * TicksPerSecond]
ScenarioResult ==
    DragResult(ScenarioDrag, 2 * TicksPerSecond,
               <<Caption(TicksPerSecond, 3 * TicksPerSecond, <<"Hi">>)>>,
               6 * TicksPerSecond, 5 * TicksPerSecond, ZoomUnit)

\* C21 as stated: in a free move each edge that comes within the snap
\* threshold of the playhead is set to the playhead time, and the duration is
\* unchanged.
C21_EachEdgeInReachSnaps ==
    view.dragState # NoDrag =>
        \A deltaTime \in DragDeltas :
            LET ds == view.dragState
                r == DragResult(ds, deltaTime, view.captions, view.videoDuration,
                                view.currentTime, view.zoomLevel)
            IN  FreeMove(ds, deltaTime, view.captions, view.videoDuration,
                         view.currentTime, view.zoomLevel) =>
                  /\ SnapsTo(ds.originalStart + deltaTime, view.currentTime,
                             view.zoomLevel) => r[1] = view.currentTime
                  /\ SnapsTo(ds.originalEnd + deltaTime, view.currentTime,
                             view.zoomLevel) => r[2] = view.currentTime
                  /\ r[2] - r[1] = ds.originalEnd - ds.originalStart

\* C21 amended: in a free move the start snaps to the playhead when it is
\* within the threshold; the end snaps when it is within the threshold and the
\* start is not; the duration is unchanged; the scenario ends with start 3.0
\* and end 5.0.
C21_StartSnapsElseEndSnaps ==
    /\ ScenarioResult = <<3 * TicksPerSecond, 5 * TicksPerSecond>>
    /\ view.dragState # NoDrag =>
        \A deltaTime \in DragDeltas :
            LET ds == view.dragState
                r == DragResult(ds, deltaTime, view.captions, view.videoDuration,
                                view.currentTime, view.zoomLevel)
                startInReach == SnapsTo(ds.originalStart + deltaTime,
                                        view.currentTime, view.zoomLevel)
                endInReach == SnapsTo(ds.originalEnd + deltaTime,
                                      view.currentTime, view.zoomLevel)
            IN  FreeMove(ds, deltaTime, view.captions, view.videoDuration,
                         view.currentTime, view.zoomLevel) =>
                  /\ startInReach => r[1] = view.currentTime
                  /\ (endInReach /\ ~startInReach) => r[2] = view.currentTime
                  /\ r[2] - r[1] = ds.originalEnd - ds.originalStart

\* a move has snapped the end of the clip to the playhead
C21_Witness ==
    /\ last.op = "mousemove"
    /\ view.dragState # NoDrag
    /\ view.dragState.mode = "move"
    /\ Has(history, historyIndex)
    /\ Len(At(history, historyIndex).captions) = 1
    /\ LET c == At(At(history, historyIndex).captions, 0)
       IN  /\ c.end = view.currentTime
           /\ c.start # view.dragState.originalStart
           /\ c.end - c.start
                = view.dragState.originalEnd - view.dragState.originalStart

\* C22 as stated: a burst of k >= 1 arrow keydowns followed by the release
\* adds exactly one entry to the history: the length does not change while
\* the key is held and is one more than before the burst after the release.
C22_BurstAddsOneEntry ==
    /\ (last.op = "nudge" /\ burst.phase = "merging" /\ burst.fresh) =>
           Len(history) = burst.len0
    /\ (last.op = "keyup" /\ burst.phase = "done" /\ burst.n >= 1
        /\ burst.fresh) => Len(history) = burst.len0 + 1

\* C22 amended: while the key is held no entry is added and the entries after
\* the cursor are dropped; the release makes one non-merged commit, after
\* which the history ends one entry after the cursor the burst started at.
C22_BurstEndsOneAfterCursor ==
    /\ (last.op = "nudge" /\ burst.phase = "merging") =>
           /\ Len(history) = burst.k + 1
           /\ Len(history) <= burst.len0
    /\ (last.op = "keyup" /\ burst.phase # "none") =>
           /\ burst.phase = "done"
           /\ Len(history) = burst.k + 2
           /\ (Len(history) = burst.len0 + 1) <=> (burst.k = burst.len0 - 1)

C22_Witness ==
    /\ last.op = "keyup"
    /\ burst.phase = "done" /\ burst.n >= 2 /\ burst.fresh
    /\ burst.k < burst.len0 - 1
    /\ Len(history) = burst.k + 2

\* the captions shown for a history and cursor
CaptionsOf(h, hi) == IF Has(h, hi) THEN At(h, hi).captions ELSE sortedCaptions

\* C25: the selection is one index or null; pointer-down on a clip selects
\* it, a click on empty timeline space clears the selection, Delete with a
\* selection removes exactly the selected caption and clears the selection,
\* and Delete without a selection changes neither captions nor history.
\* Stated for handlers that hold the current state.
C25_SelectionAndDelete ==
    [][ /\ selectedCaptionIndex' \in {NullIndex} \cup Nat
        /\ last'.op = "mousedown" =>
              /\ selectedCaptionIndex' = dragState'.index
              /\ Has(view.captions, selectedCaptionIndex')
        /\ last'.op = "timeline-click" => selectedCaptionIndex' = NullIndex
        /\ (last'.op = "delete" /\ Fresh) =>
              /\ view.selectedCaptionIndex # NullIndex
              /\ Has(view.captions, view.selectedCaptionIndex)
              /\ CaptionsOf(history', historyIndex')
                   = Splice(view.captions, view.selectedCaptionIndex, 1, <<>>)
              /\ selectedCaptionIndex' = NullIndex
        /\ last'.op = "key" =>
              /\ view.selectedCaptionIndex = NullIndex
              /\ history' = history /\ historyIndex' = historyIndex ]_vars

\* C26: a commit attempted while the cursor the handler holds references no
\* snapshot is rejected without effect: the snapshot list and the cursor are
\* left unchanged.
C26_InvalidCursorCommitRejected ==
    [][(last'.op = "commit" /\ ~Has(history, view.historyIndex)) =>
          /\ history' = history
          /\ historyIndex' = historyIndex]_vars

\* handleAddCaption finds no room for a caption of the minimum length: its
\* updater returns the state it was given
AddRefused ==
    /\ Has(history, view.historyIndex)
    /\ AddCaptionUpdater(stateToUpdate, video.currentTime, view.videoDuration)
         = stateToUpdate

\* C27: an add-caption-at-playhead that finds no room has no effect: the
\* captions, the snapshot list and the cursor are unchanged. Stated for a
\* handler that holds the current state.
C27_RefusedAddHasNoEffect ==
    [][(last'.op = "add" /\ Fresh /\ AddRefused) =>
          /\ CaptionsOf(history', historyIndex') = view.captions
          /\ history' = history
          /\ historyIndex' = historyIndex]_vars
\* ---------------------------------------------------------- canvas claims
IsWord(piece) == piece # <<>>

\* the words of a line: its pieces between spaces
Words(line) == SelectSeq(Split(line, " "), IsWord)

RECURSIVE WordsOfLines(_)
WordsOfLines(lines) ==
    IF lines = <<>> THEN <<>> ELSE Words(Head(lines)) \o WordsOfLines(Tail(lines))

\* the words of the output lines in order are the words of the text in order
WordsKept ==
    WordsOfLines(exp.canvas.allLines) = WordsOfLines(Split(exp.canvas.text, LF))

\* a line holds more than one word only if it fits the max width
ManyWordsFit ==
    \A i \in 1..Len(exp.canvas.allLines) :
       Len(Words(exp.canvas.allLines[i])) > 1 =>
          measureText(exp.canvas.allLines[i], exp.canvas.width) <= exp.canvas.maxWidthPx

\* every line produced from an explicit line that holds a word holds a word
EveryLineHoldsAWord ==
    LET initialLines == Split(exp.canvas.text, LF)
    IN  \A k \in 1..Len(initialLines) :
           Words(initialLines[k]) # <<>> =>
              \A i \in 1..Len(exp.canvas.byLine[k]) :
                 Words(exp.canvas.byLine[k][i]) # <<>>

\* C28: the word-wrap never breaks inside a word: the words of the output
\* lines in order are exactly the words of the input in order, every line
\* produced from an explicit line that holds a word holds at least one word,
\* and a line holds more than one word only if its measured width is at most
\* the max width.
C28_WrapNeverBreaksWords ==
    Drawn => WordsKept /\ EveryLineHoldsAWord /\ ManyWordsFit
\* C29 as stated: wrapping all the lines of a first wrap, re-joined with
\* spaces, at the same max width produces the lines of the first wrap.
C29_RewrapOfAllLinesSame ==
    Drawn => AllLines(Join(exp.canvas.allLines, " "), exp.canvas.maxWidthPx,
                      exp.canvas.width) = exp.canvas.allLines

\* C29: the word-wrap is idempotent on each explicit line: wrapping the lines
\* produced from one explicit line, re-joined with spaces, at the same max
\* width produces the same lines.
C29_RewrapOfExplicitLineSame ==
    Drawn => \A k \in 1..Len(exp.canvas.byLine) :
                WrapLine(Join(exp.canvas.byLine[k], " "), exp.canvas.maxWidthPx,
                         exp.canvas.width) = exp.canvas.byLine[k]

\* a text of several explicit lines, one of them broken by the wrap between
\* two words
C29_Witness ==
    /\ Drawn
    /\ Len(exp.canvas.byLine) >= 2
    /\ \E k \in 1..Len(exp.canvas.byLine) :
          /\ Len(exp.canvas.byLine[k]) >= 2
          /\ \A i \in 1..Len(exp.canvas.byLine[k]) :
                Words(exp.canvas.byLine[k][i]) # <<>>
\* the shadow and the stroke a style asks for
ShadowOf(styles) ==
    IF styles.effect = "shadow"
    THEN [color |-> styles.shadowColor, blur |-> styles.shadowBlur,
          offsetX |-> styles.shadowOffsetX, offsetY |-> styles.shadowOffsetY]
    ELSE NoShadow

StrokeOf(styles) ==
    IF styles.effect = "outline" /\ styles.strokeWidth > 0
    THEN [painted |-> TRUE, strokeStyle |-> styles.strokeColor,
          lineWidth |-> styles.strokeWidth, shadow |-> NoShadow]
    ELSE NoStroke

\* C30: no paint effect leaks between drawText calls on the same surface:
\* the shadow in force while a call fills its text and the stroke it paints
\* are exactly those of the call's own style (no shadow unless the effect is
\* shadow, no stroke unless the effect is outline), and the background box of
\* every call is filled with no shadow, whatever the previous call's effect.
C30_NoEffectLeaks ==
    Drawn => /\ exp.canvas.textShadow = ShadowOf(exp.canvas.styles)
             /\ exp.canvas.strokeText = StrokeOf(exp.canvas.styles)
             /\ exp.canvas.boxShadow = NoShadow

\* a call without effect right after a call with a shadow, and a call with
\* a shadow right after a call with an outline
C30_Witness ==
    /\ Drawn
    /\ \/ exp.canvas.previous = "shadow" /\ exp.canvas.styles.effect = "none"
       \/ exp.canvas.previous = "outline" /\ exp.canvas.styles.effect = "shadow"
\* --------------------------------------------------- gesture claims
\* a pointer-move of a drag that commits: the handler finds the snapshot and
\* the dragged caption it captured
MoveCommits ==
    /\ last'.op = "mousemove"
    /\ Has(history, view.historyIndex)
    /\ Has(stateToUpdate.captions, view.dragState.index)

\* the dragged caption in the snapshot a merged commit wrote
MovedCaption == At(history'[Len(history')].captions, view.dragState.index)

\* C31: in a move drag, whenever the committed clip starts exactly at 0 or
\* ends exactly at the video duration, end - start equals the duration the
\* clip had at pointer-down.
C31_MoveAtBoundaryKeepsDuration ==
    [][(MoveCommits /\ view.dragState.mode = "move"
          /\ (MovedCaption.start = 0 \/ MovedCaption.end = view.videoDuration))
        => MovedCaption.end - MovedCaption.start
             = view.dragState.originalEnd - view.dragState.originalStart]_vars

\* a move that pushed the clip past the end of the video: the end is at the
\* duration and the start was recomputed from it
C31_Witness ==
    /\ last.op = "mousemove"
    /\ view.dragState # NoDrag
    /\ view.dragState.mode = "move"
    /\ Has(captions, view.dragState.index)
    /\ LET c == At(captions, view.dragState.index)
       IN  /\ c.end = view.videoDuration
           /\ c.start # view.dragState.originalStart
           /\ c.start = c.end - (view.dragState.originalEnd
                                   - view.dragState.originalStart)
\* the pointer-move handed deltaTime to a commit that wrote <<start, end>>
MovedBy(deltaTime) ==
    /\ MoveCommits
    /\ <<MovedCaption.start, MovedCaption.end>>
         = DragResult(view.dragState, deltaTime, view.captions,
                      view.videoDuration, view.currentTime, view.zoomLevel)

\* C32: during a resize-start or resize-end drag, whenever the moving edge
\* comes within the snap threshold of the playhead, the value committed for
\* that edge equals the playhead time, for every playhead position, neighbour
\* layout and zoom level. Stated for handlers that hold the current state.
C32_ResizeSnapsExactly ==
    [][\A deltaTime \in DragDeltas :
         (MovedBy(deltaTime) /\ Fresh) =>
            /\ ( /\ view.dragState.mode = "resize-start"
                 /\ SnapsTo(view.dragState.originalStart + deltaTime,
                            view.currentTime, view.zoomLevel) )
               => MovedCaption.start = view.currentTime
            /\ ( /\ view.dragState.mode = "resize-end"
                 /\ SnapsTo(view.dragState.originalEnd + deltaTime,
                            view.currentTime, view.zoomLevel) )
               => MovedCaption.end = view.currentTime]_vars
\* ----------------------------------------------------- nudge claims
\* the shift a nudge by amount may give caption index of caps: the amount,
\* reduced as far as 0, the duration and the neighbours require
AllowedShift(caps, index, amount, duration) ==
    LET c == At(caps, index)
        floor == IF Has(caps, index - 1) THEN Max(0, At(caps, index - 1).end) ELSE 0
        ceiling == IF Has(caps, index + 1)
                   THEN Min(duration, At(caps, index + 1).start) ELSE duration
    IN  IF amount < 0 THEN Min(0, Max(amount, floor - c.start))
        ELSE Max(0, Min(amount, ceiling - c.end))

\* C33: an arrow-key nudge of the selected caption shifts both start and end
\* by the same amount, 1/30 s or 10/30 s, reduced only as far as needed to
\* stay within [0, duration] and between the neighbouring captions; it changes
\* no other caption. Stated for handlers that hold the current state.
C33_NudgeShiftsWithinLimits ==
    [][(last'.op = "nudge" /\ Fresh /\ Has(history, historyIndex)) =>
         LET index == view.selectedCaptionIndex
             before == At(captions, index)
             after == At(captions', index)
         IN  /\ Len(captions') = Len(captions)
             /\ \A j \in 0..(Len(captions) - 1) :
                   j # index => At(captions', j) = At(captions, j)
             /\ after.end - after.start = before.end - before.start
             /\ \E amount \in NudgeAmounts :
                   after.start - before.start
                     = AllowedShift(captions, index, amount, videoDuration)]_vars
\* ----------------------------------------------------- parity claims
\* C34: for every playback time t and caption list, the caption drawn by the
\* live preview at t is the caption the export composites on a frame at time
\* t, including at t equal to a caption's end and at the shared boundary of
\* two adjacent captions.
C34_PreviewDrawsWhatExportDraws ==
    \A j \in 1..Len(exp.frames) :
        exp.frames[j].text
          = PreviewCaptionText(exp.captions, exp.frames[j].time)
\* C35: the snapshot committed at pointer-up of a drag carries the start/end
\* of the last merged pointer-move of that drag for the dragged caption, also
\* when no render lies between the pointer-move and the pointer-up. Stated
\* for a drag whose pointer-down and pointer-moves held the current state.
C35_PointerUpKeepsLastMove ==
    [][(last'.op = "mouseup" /\ gest.phase = "moved" /\ gest.fresh
          /\ view.dragState = dragState
          /\ Has(history, historyIndex) /\ Has(history', historyIndex'))
        => At(captions', dragState.index) = At(captions, dragState.index)]_vars

\* C37: pressing and releasing the pointer on a clip without moving it leaves
\* the snapshot list and the cursor unchanged. Stated for handlers that hold
\* the current state.
C37_ClickChangesSelectionOnly ==
    [][(last'.op = "mouseup" /\ gest.phase = "down" /\ gest.fresh /\ Fresh)
        => /\ history' = history
           /\ historyIndex' = historyIndex]_vars
\* ------------------------------------------------- selection claims
\* C36: in every reachable state the selection is null or a valid index into
\* the current caption list. Stated for the states the component has
\* rendered.
C36_SelectionIsValidIndex ==
    (Fresh /\ selectedCaptionIndex # NullIndex)
        => Has(captions, selectedCaptionIndex)
\* --------------------------------------------------------- ruler claims
\* C38: every ruler pointer-down is followed, at the next pointer-up, by
\* isScrubbing becoming false again, also when the zoom level or the video
\* duration changes between the pointer-down and the pointer-up.
C38_ScrubbingEndsAtPointerUp ==
    [][last'.op = "ruler-up" => ~scroller'.ruler.isScrubbing]_vars
\* --------------------------------------------------------- split claims
\* caption index of the current list is replaced by [start, t] and [t, end]
\* with its text, and every other caption is unchanged
SplitAt(index, t) ==
    LET c == At(captions, index) IN
    /\ c.start < t /\ t < c.end
    /\ Len(captions') = Len(captions) + 1
    /\ At(captions', index) = [start |-> c.start, end |-> t, text |-> c.text]
    /\ At(captions', index + 1) = [start |-> t, end |-> c.end, text |-> c.text]
    /\ \A j \in 0..(Len(captions) - 1) :
          /\ j < index => At(captions', j) = At(captions, j)
          /\ j > index => At(captions', j + 1) = At(captions, j)

\* a split at the video position, which lies strictly inside one caption
SplitDone ==
    \E index \in 0..(Len(captions) - 1) : SplitAt(index, video.currentTime)

\* C39 as stated: a split strictly inside a caption replaces it by its two
\* parts, leaves the other captions unchanged and adds one history entry; a
\* split outside changes neither the captions nor the history. Stated for
\* handlers that hold the current state.
C39_SplitAddsOneEntry ==
    [][ /\ (last'.op = "split" /\ Fresh) =>
              /\ SplitDone
              /\ Len(history') = Len(history) + 1
        /\ (last'.op = "split-refused" /\ Fresh) =>
              /\ history' = history
              /\ historyIndex' = historyIndex ]_vars

\* C39: a split strictly inside a caption replaces it by its two parts, leaves
\* the other captions unchanged and commits the result as the entry after the
\* cursor, which becomes the last entry; a split outside changes neither the
\* captions nor the history. Stated for handlers that hold the current state.
C39_SplitCommitsAfterCursor ==
    [][ /\ (last'.op = "split" /\ Fresh) =>
              /\ SplitDone
              /\ historyIndex' = historyIndex + 1
              /\ Len(history') = historyIndex + 2
              /\ \A i \in 1..(historyIndex + 1) : history'[i] = history[i]
        /\ (last'.op = "split-refused" /\ Fresh) =>
              /\ history' = history
              /\ historyIndex' = historyIndex ]_vars

\* a split of the first of two captions of the current list
C39_Witness ==
    /\ last.op = "split"
    /\ Len(captions) = 3
    /\ captions[1].end = captions[2].start
    /\ captions[1].text = captions[2].text
    /\ captions[3] = view.captions[2]
\* --------------------------------------------------------- style claims
\* C40: every style change made with a slider or colour picker can be
\* reverted: after such a change some number of undo steps makes the current
\* snapshot's styles equal to the styles in force before it, that is, an
\* entry at or before the cursor holds those styles. Stated for handlers
\* that hold the current state.
C40_SliderChangeCanBeUndone ==
    [][(IsCommit(last', TRUE) /\ Fresh /\ Has(history, historyIndex))
        => \E i \in 0..historyIndex' :
              /\ Has(history', i)
              /\ At(history', i).styles = At(history, historyIndex).styles]_vars

====
